---- MODULE Spec2Model ----
(***************************************************************************)
(* A model of the vector storage variant on the accelerator backend        *)
(* (HIPAcceleratorVector, src/src/base/hip/hip_vector.cpp) and of the      *)
(* host 2D Laplace stencil (src/src/base/host/host_stencil_laplace2d.cpp). *)
(*                                                                         *)
(* A vector object is a record of the fields the class keeps.  A buffer is *)
(* a sequence; the NULL pointer is the empty sequence (no code path        *)
(* allocates a buffer of length 0).  The scratch buffers only carry        *)
(* whether they are allocated.  A failed assert() or FATAL_ERROR ends the  *)
(* process: the call is recorded with st = "fatal" and nothing runs        *)
(* afterwards.                                                             *)
(***************************************************************************)
EXTENDS Integers, Sequences, FiniteSets, TLC

VARIABLES
  vec,      \* the vector objects: id -> record of the object's fields
  pending,  \* transfers enqueued by the *Async copies and not yet carried out
  last,     \* the most recent call: name, operands, outcome, state before it
  vtype,    \* the element type ValueType the classes are instantiated with
  size_,    \* HostStencilLaplace2D::size_, the grid's extent along each axis
  omp,      \* a stencil call under way: its loop, the shared idx, the threads
  mg        \* the MultiGrid solver: its fields and the outcome of the last call

vars == <<vec, pending, last, vtype, size_, omp, mg>>

----------------------------------------------------------------------------
(* Bounds of the model *)

\* most levels of a multigrid hierarchy
MaxLevels == 3

\* a pointer to an array of operator pointers: null, or the array at
NullArray == [null |-> TRUE, at |-> <<>>]

ArrayOf(a) == [null |-> FALSE, at |-> a]

\* no solver has been constructed.  Besides the members, the record keeps
\* the last call (op, arg, st), in lost the number of arrays that call left
\* allocated with nothing pointing to them, and in deleted the members
\* whose array the destructor released.
NoMultiGrid == [levels_ |-> 0, build_ |-> FALSE, op_level_ |-> NullArray,
                restrict_op_level_ |-> NullArray, prolong_op_level_ |-> NullArray,
                op |-> "none", arg |-> NullArray, st |-> "ok",
                lost |-> 0, deleted |-> {}]

\* longest vector
MaxLen == 2

\* longest vector of the specifications that make a single call
MaxN == 3

\* largest grid extent, and the threads of an OpenMP team
MaxGrid == 4

NumThreads == 2

Threads == 1 .. NumThreads

\* no stencil call under way
Idle ==
  [phase |-> 0, add |-> FALSE, scalar |-> 0, idx |-> 0,
   todo |-> [t \in Threads |-> <<>>], set |-> [t \in Threads |-> FALSE],
   old |-> <<>>]

\* the element values a buffer holds
Val == 0 .. (MaxLen + 1)

\* the buffers of n elements a client fills a vector with: 1, 2, .. and
\* 2, 3, .. (pairwise different, and different from a zeroed buffer)
Buffers(n) == {[k \in 1 .. n |-> k + c] : c \in 0 .. 1}

\* the entries an index array may hold (positions of a vector of MaxLen)
IdxVal == 0 .. (MaxLen - 1)

\* longest index array handed to SetIndexArray
MaxIdx == MaxLen - 1

\* the index arrays of k entries a client hands to SetIndexArray: increasing
\* positions
IndexArrays(k) ==
  {ix \in [1 .. k -> IdxVal] : \A a, b \in 1 .. k : a < b => ix[a] < ix[b]}

VecIds == 1 .. 2

Zeros(n) == [k \in 1 .. n |-> 0]

\* all sequences over S of length 0 .. n
SeqsUpTo(S, n) == UNION {[1 .. k -> S] : k \in 0 .. n}

----------------------------------------------------------------------------
(* The object after construction *)

\* HIPAcceleratorVector(local_backend): all pointers NULL; the BaseVector
\* constructor sets size_ and index_size_ to 0.
\* The record also keeps what the current call of the client did to the
\* heap: lost, the number of buffers left allocated whose address nothing
\* holds any more, nullfree, the number of releases of a pointer that was
\* NULL, and freed, the pointer members whose buffer was released.
NewVector(b) ==
  [backend |-> b, size_ |-> 0, vec_ |-> <<>>,
   index_size_ |-> 0, index_array_ |-> <<>>, index_buffer_ |-> FALSE,
   host_buffer_ |-> FALSE, device_buffer_ |-> FALSE,
   lost |-> 0, nullfree |-> 0, freed |-> {}]

Ok(v) == [st |-> "ok", v |-> v]

Fatal(v) == [st |-> "fatal", v |-> v]

----------------------------------------------------------------------------
(* Allocation *)

\* the pointer members of a device vector
Pointers == {"vec_", "index_array_", "index_buffer_", "host_buffer_", "device_buffer_"}

\* the buffers are held by their contents (vec_, index_array_) or by whether
\* they are allocated (the three others): the member f of v is NULL
IsNull(v, f) ==
  IF f \in {"vec_", "index_array_"} THEN v[f] = <<>> ELSE ~v[f]

Null(f) == IF f \in {"vec_", "index_array_"} THEN <<>> ELSE FALSE

\* free_hip(&v.f) / free_host(&v.f): releases the buffer and sets the
\* pointer to NULL.  nullfree counts, within one call of the client, the
\* releases asked of a pointer that holds no buffer.
free_hip(v, f) ==
  IF IsNull(v, f)
  THEN [v EXCEPT !.nullfree = @ + 1]
  ELSE [v EXCEPT ![f] = Null(f), !.freed = @ \cup {f}]

\* allocate_hip(n, &v.f) / allocate_host(n, &v.f), n > 0, or an assignment
\* to the pointer: the member holds the new buffer b, and the buffer it held
\* before is lost.  lost counts, within one call of the client, the buffers
\* that are left allocated with no pointer to them.
allocate_hip(v, f, b) ==
  [[v EXCEPT !.lost = IF IsNull(v, f) THEN @ ELSE @ + 1] EXCEPT ![f] = b]

\* the objects at the start of a call: nothing lost, nothing released yet
Fresh(v) ==
  [i \in DOMAIN v |-> [v[i] EXCEPT !.lost = 0, !.nullfree = 0, !.freed = {}]]

\* HIPAcceleratorVector::Clear
Clear(v) ==
  LET a == IF v.size_ > 0 THEN [free_hip(v, "vec_") EXCEPT !.size_ = 0] ELSE v
  IN  IF a.index_size_ > 0
      THEN free_hip(free_hip(
             [free_hip(free_hip(a, "index_buffer_"), "index_array_")
                EXCEPT !.index_size_ = 0],
             "host_buffer_"), "device_buffer_")
      ELSE a

\* the pointer members of v that hold a buffer
Owned(v) == {f \in Pointers : ~IsNull(v, f)}

\* ~HIPAcceleratorVector(): Clear; whatever buffer the object still holds
\* after it is left allocated with nothing pointing to it
Destructor(v) ==
  LET c == Clear(v) IN [c EXCEPT !.lost = @ + Cardinality(Owned(c))]

\* the object this at the end of a call that had the local object tmp: the
\* destructor of tmp has run, and what it did to the heap is part of what
\* the call did
EndOfScope(this, tmp) ==
  LET d == Destructor(tmp)
  IN  [this EXCEPT !.lost = @ + d.lost, !.nullfree = @ + d.nullfree]

\* Allocate clearing the old state only when it allocates anew
AllocateLazy(v, n) ==
  LET c == IF v.size_ > 0 /\ n > 0 THEN Clear(v) ELSE v
  IN  IF n > 0
      THEN [allocate_hip(allocate_hip(allocate_hip(c, "vec_", Zeros(n)),
                                      "host_buffer_", TRUE),
                         "device_buffer_", TRUE)
              EXCEPT !.size_ = n]
      ELSE c

\* HIPAcceleratorVector::Allocate(n), n >= 0 (the caller checks the assert)
Allocate(v, n) ==
  LET c == IF v.size_ > 0 THEN Clear(v) ELSE v
  IN  IF n > 0
      THEN [allocate_hip(allocate_hip(allocate_hip(c, "vec_", Zeros(n)),
                                      "host_buffer_", TRUE),
                         "device_buffer_", TRUE)
              EXCEPT !.size_ = n]
      ELSE c

\* HostVector::Allocate(n) as CopyToHost uses it, on a host vector of size 0:
\* a zero-initialized buffer of n elements
HostAllocate(v, n) ==
  IF n > 0 THEN [v EXCEPT !.vec_ = Zeros(n), !.size_ = n] ELSE v

\* HIPAcceleratorVector::SetDataPtr(ptr, size); data is the buffer *ptr points
\* to, <<>> when *ptr is NULL, and size is its length
SetDataPtr(v, data) ==
  IF Len(data) = 0
  THEN Fatal(v)
  ELSE Ok(allocate_hip(allocate_hip(
            [allocate_hip(v, "vec_", data) EXCEPT !.size_ = Len(data)],
            "host_buffer_", TRUE), "device_buffer_", TRUE))

\* LeaveDataPtr releasing the data buffer as Clear does, instead of handing
\* it out
LeaveDataPtrFree(v) ==
  IF ~(v.size_ > 0)
  THEN Fatal(v)
  ELSE Ok([free_hip(free_hip(free_hip(v, "vec_"), "host_buffer_"),
                    "device_buffer_")
             EXCEPT !.size_ = 0])

\* HIPAcceleratorVector::LeaveDataPtr(ptr)
LeaveDataPtr(v) ==
  IF ~(v.size_ > 0)
  THEN Fatal(v)
  ELSE Ok([free_hip(free_hip([v EXCEPT !.vec_ = <<>>], "host_buffer_"),
                    "device_buffer_")
             EXCEPT !.size_ = 0])

\* HIPAcceleratorVector::SetIndexArray(size, index); index holds size entries
SetIndexArray(v, index) ==
  IF ~(Len(index) > 0) \/ ~(v.size_ >= Len(index))
  THEN Fatal(v)
  ELSE Ok(allocate_hip(allocate_hip([v EXCEPT !.index_size_ = Len(index)],
                                    "index_array_", index),
                       "index_buffer_", TRUE))

----------------------------------------------------------------------------
(* Copies between vectors.  Each returns the destination object and the    *)
(* outcome; junk is what a freshly allocated, not yet written index array  *)
(* holds.                                                                  *)

\* Transfer without its second hipMemcpy: the index array is not copied
TransferElementsOnly(dst, src) ==
  IF dst.size_ > 0 THEN [dst EXCEPT !.vec_ = src.vec_] ELSE dst

\* the two hipMemcpy calls of a copy: the elements and the index array
Transfer(dst, src) ==
  IF dst.size_ > 0
  THEN [dst EXCEPT !.vec_ = src.vec_, !.index_array_ = src.index_array_]
  ELSE dst

\* the block every device-side copy starts with: an empty destination is
\* allocated to the source's size and takes over its index-array size
AllocateLike(dst, src, junk) ==
  IF dst.size_ = 0
  THEN LET a == Allocate(dst, src.size_)
       IN  IF a.index_size_ # 0
           THEN Fatal(a)
           ELSE IF src.index_size_ > 0
                THEN Ok(allocate_hip(allocate_hip(
                          [a EXCEPT !.index_size_ = src.index_size_],
                          "index_array_", junk), "index_buffer_", TRUE))
                ELSE Ok(a)
  ELSE Ok(dst)

\* the same block of CopyToHost: the destination is a host vector, which
\* gets an index array and no index buffer
HostAllocateLike(dst, src, junk) ==
  IF dst.size_ = 0
  THEN LET a == HostAllocate(dst, src.size_)
       IN  IF a.index_size_ # 0
           THEN Fatal(a)
           ELSE IF src.index_size_ > 0
                THEN Ok([a EXCEPT !.index_size_ = src.index_size_,
                                  !.index_array_ = junk])
                ELSE Ok(a)
  ELSE Ok(dst)

\* SameShape without its first assert: the sizes are not compared
SameIndexSize(a, b) == a.index_size_ = b.index_size_

\* the two asserts after the allocation block
SameShape(a, b) == a.size_ = b.size_ /\ a.index_size_ = b.index_size_

\* HIPAcceleratorVector::CopyFromHost(src)
CopyFromHost(this, src, junk) ==
  LET r == AllocateLike(this, src, junk)
  IN  IF r.st = "fatal" THEN r
      ELSE IF ~SameShape(src, r.v) THEN Fatal(r.v)
      ELSE Ok(Transfer(r.v, src))

\* HIPAcceleratorVector::CopyToHost(dst); returns the host vector dst
CopyToHost(this, dst, junk) ==
  LET r == HostAllocateLike(dst, this, junk)
  IN  IF r.st = "fatal" THEN r
      ELSE IF ~SameShape(r.v, this) THEN Fatal(r.v)
      ELSE Ok(Transfer(r.v, this))

\* HIPAcceleratorVector::CopyFrom(src); same: src is this very object
CopyFrom(this, src, same, junk) ==
  IF src.backend = "hip"
  THEN LET r == AllocateLike(this, src, junk)
       IN  IF r.st = "fatal" THEN r
           ELSE IF ~SameShape(src, r.v) THEN Fatal(r.v)
           ELSE IF ~same THEN Ok(Transfer(r.v, src))
           ELSE Ok(r.v)
  ELSE CopyFromHost(this, src, junk)

\* HIPAcceleratorVector::CopyTo(dst); returns dst; same: dst is this object
CopyTo(this, dst, same, junk) ==
  IF dst.backend = "hip"
  THEN LET r == AllocateLike(dst, this, junk)
       IN  IF r.st = "fatal" THEN r
           ELSE IF ~SameShape(r.v, this) THEN Fatal(r.v)
           ELSE IF ~same THEN Ok(Transfer(r.v, this))
           ELSE Ok(r.v)
  ELSE CopyToHost(this, dst, junk)

\* CopyFromHostAsync(src): allocation and asserts as CopyFromHost; the two
\* hipMemcpyAsync calls are enqueued (enq) instead of carried out
CopyFromHostAsync(this, src, junk) ==
  LET r == AllocateLike(this, src, junk)
  IN  IF r.st = "fatal" THEN [st |-> "fatal", v |-> r.v, enq |-> FALSE]
      ELSE IF ~SameShape(src, r.v)
           THEN [st |-> "fatal", v |-> r.v, enq |-> FALSE]
           ELSE [st |-> "ok", v |-> r.v, enq |-> r.v.size_ > 0]

\* CopyToHostAsync(dst)
CopyToHostAsync(this, dst, junk) ==
  LET r == HostAllocateLike(dst, this, junk)
  IN  IF r.st = "fatal" THEN [st |-> "fatal", v |-> r.v, enq |-> FALSE]
      ELSE IF ~SameShape(r.v, this)
           THEN [st |-> "fatal", v |-> r.v, enq |-> FALSE]
           ELSE [st |-> "ok", v |-> r.v, enq |-> this.size_ > 0]

\* CopyFromAsync(src): device to device it is the synchronous hipMemcpy
CopyFromAsync(this, src, same, junk) ==
  IF src.backend = "hip"
  THEN LET r == CopyFrom(this, src, same, junk)
       IN  [st |-> r.st, v |-> r.v, enq |-> FALSE]
  ELSE CopyFromHostAsync(this, src, junk)

\* CopyToAsync(dst)
CopyToAsync(this, dst, same, junk) ==
  IF dst.backend = "hip"
  THEN LET r == CopyTo(this, dst, same, junk)
       IN  [st |-> r.st, v |-> r.v, enq |-> FALSE]
  ELSE CopyToHostAsync(this, dst, junk)

----------------------------------------------------------------------------
(* The copy of a window *)

RECURSIVE WindowValue(_, _, _, _, _, _)
\* what thread t of kernel_copy_offset_from reads from src[t + src_offset]
\* when source and destination are one buffer: the value from before the
\* call, or, for a thread in seen, what the thread writing that position
\* (thread t + src_offset - dst_offset) has stored there
WindowValue(old, n, so, do, seen, t) ==
  LET w == t + so - do
  IN  IF t \in seen /\ w # t /\ w >= 0 /\ w < n
      THEN WindowValue(old, n, so, do, seen, w)
      ELSE old[so + t + 1]

\* kernel_copy_offset_from(n, so, do, src, dst): dst[t+do] = src[t+so], one
\* thread per t < n
kernel_copy_offset_from(n, so, do, src, dst, same, seen) ==
  [k \in 1 .. Len(dst) |->
     IF k - 1 >= do /\ k - 1 < do + n
     THEN IF same
          THEN WindowValue(dst, n, so, do, seen, k - 1 - do)
          ELSE src[k - 1 - do + so + 1]
     ELSE dst[k]]

\* CopyFromPartial handing the two offsets to the kernel in the wrong order
CopyFromPartialSwapped(this, src, same, so, do, n, seen) ==
  IF \/ ~(this.size_ > 0) \/ ~(src.size_ > 0) \/ ~(n > 0)
     \/ ~(so + n <= src.size_) \/ ~(do + n <= this.size_)
     \/ src.backend # "hip"
  THEN Fatal(this)
  ELSE Ok([this EXCEPT !.vec_ =
             [k \in 1 .. Len(this.vec_) |->
                IF k - 1 >= so /\ k - 1 < so + n /\ k - 1 - so + do + 1 <= Len(src.vec_)
                THEN src.vec_[k - 1 - so + do + 1]
                ELSE this.vec_[k]]])

\* HIPAcceleratorVector::CopyFrom(src, src_offset, dst_offset, size)
CopyFromPartial(this, src, same, so, do, n, seen) ==
  IF \/ ~(this.size_ > 0) \/ ~(src.size_ > 0) \/ ~(n > 0)
     \/ ~(so + n <= src.size_) \/ ~(do + n <= this.size_)
     \/ src.backend # "hip"
  THEN Fatal(this)
  ELSE Ok([this EXCEPT !.vec_ =
             kernel_copy_offset_from(n, so, do, src.vec_, this.vec_, same, seen)])

----------------------------------------------------------------------------
(* The transfers a hipMemcpyAsync enqueues run on the null stream, in      *)
(* order and before any later call on the device.                          *)

\* a device on which an enqueued transfer is lost
DrainNothing(v, q) == v

RECURSIVE Drain(_, _)
Drain(v, q) ==
  IF q = <<>> THEN v
  ELSE Drain([v EXCEPT ![Head(q).dst] = Transfer(v[Head(q).dst], v[Head(q).src])],
             Tail(q))

\* the objects once every enqueued transfer has been carried out
Drained == Drain(Fresh(vec), pending)

Alive == last.st # "fatal"

\* the record of a call: this is object i, the operand object j (0: none),
\* arg the scalar arguments, ret what it returns, prims the number of
\* backend primitives (kernels, BLAS calls, transfers) it issued
Call(op, i, j, arg, st, ret, prims) ==
  [op |-> op, i |-> i, j |-> j, k |-> 0, arg |-> arg, st |-> st,
   old |-> Drained, ret |-> ret, prims |-> prims, prev |-> <<>>]

NoCall ==
  [op |-> "none", i |-> 0, j |-> 0, k |-> 0, arg |-> <<>>, st |-> "ok", old |-> <<>>,
   prev |-> <<>>,
   ret |-> <<>>, prims |-> 0]

\* one call by the client: the objects become v, the queue q
Step(c, v, q) ==
  /\ Alive
  /\ vec' = v
  /\ pending' = q
  /\ last' = c
  /\ UNCHANGED <<vtype, size_, omp, mg>>

\* what the index array allocated for destination dst may hold before it
\* is written: anything.  A synchronous transfer overwrites it whenever the
\* source has elements, and then one representative is enough.
Junk(dst, src, async) ==
  IF dst.size_ = 0 /\ (src.size_ = 0 \/ async)
  THEN [1 .. src.index_size_ -> IdxVal]
  ELSE {[k \in 1 .. src.index_size_ |-> 0]}

Hip(i) == vec[i].backend = "hip"

----------------------------------------------------------------------------
(* The calls of a client on the vector objects *)

\* the call record of Allocate also keeps, in prev, the argument of the call
\* before it when that was an Allocate of the same object
DoAllocate(i, n) ==
  /\ Hip(i)
  /\ Step([Call("Allocate", i, 0, <<n>>, IF n >= 0 THEN "ok" ELSE "fatal", <<>>, 0)
            EXCEPT !.prev = IF last.op = "Allocate" /\ last.i = i
                            THEN last.arg ELSE <<>>],
          [Drained EXCEPT ![i] = IF n >= 0 THEN Allocate(@, n) ELSE @], <<>>)

DoClear(i) ==
  /\ Hip(i)
  /\ Step(Call("Clear", i, 0, <<>>, "ok", <<>>, 0),
          [Drained EXCEPT ![i] = Clear(@)], <<>>)

\* the call record of SetDataPtr keeps, in prev, the size of the vector and
\* the number of enqueued transfers when the call is made; that of
\* LeaveDataPtr keeps the argument, that size and that number of the
\* SetDataPtr of the same object right before it
DoSetDataPtr(i, data) ==
  /\ Hip(i)
  /\ LET r == SetDataPtr(Drained[i], data)
     IN  Step([Call("SetDataPtr", i, 0, data, r.st, <<>>, 0)
                EXCEPT !.prev = <<vec[i].size_, Len(pending)>>],
              [Drained EXCEPT ![i] = r.v], <<>>)

DoLeaveDataPtr(i) ==
  /\ Hip(i)
  /\ LET r == LeaveDataPtr(Drained[i])
     IN  Step([Call("LeaveDataPtr", i, 0, <<>>, r.st, Drained[i].vec_, 0)
                EXCEPT !.prev = IF last.op = "SetDataPtr" /\ last.i = i
                                THEN <<last.arg>> \o last.prev ELSE <<>>],
              [Drained EXCEPT ![i] = r.v], <<>>)

DoSetIndexArray(i, index) ==
  /\ Hip(i)
  /\ LET r == SetIndexArray(Drained[i], index)
     IN  Step(Call("SetIndexArray", i, 0, index, r.st, <<>>, 0),
              [Drained EXCEPT ![i] = r.v], <<>>)

DoCopyFromHost(i, j) ==
  /\ Hip(i) /\ ~Hip(j)
  /\ \E junk \in Junk(Drained[i], Drained[j], FALSE) :
       LET r == CopyFromHost(Drained[i], Drained[j], junk)
       IN  Step(Call("CopyFromHost", i, j, <<>>, r.st, <<>>, 0),
                [Drained EXCEPT ![i] = r.v], <<>>)

DoCopyToHost(i, j) ==
  /\ Hip(i) /\ ~Hip(j)
  /\ \E junk \in Junk(Drained[j], Drained[i], FALSE) :
       LET r == CopyToHost(Drained[i], Drained[j], junk)
       IN  Step(Call("CopyToHost", i, j, <<>>, r.st, <<>>, 0),
                [Drained EXCEPT ![j] = r.v], <<>>)

DoCopyFrom(i, j) ==
  /\ Hip(i)
  /\ \E junk \in Junk(Drained[i], Drained[j], FALSE) :
       LET r == CopyFrom(Drained[i], Drained[j], i = j, junk)
       IN  Step(Call("CopyFrom", i, j, <<>>, r.st, <<>>, 0),
                [Drained EXCEPT ![i] = r.v], <<>>)

DoCopyTo(i, j) ==
  /\ Hip(i)
  /\ \E junk \in Junk(Drained[j], Drained[i], FALSE) :
       LET r == CopyTo(Drained[i], Drained[j], i = j, junk)
       IN  Step(Call("CopyTo", i, j, <<>>, r.st, <<>>, 0),
                [Drained EXCEPT ![j] = r.v], <<>>)

DoCopyFromHostAsync(i, j) ==
  /\ Hip(i) /\ ~Hip(j)
  /\ \E junk \in Junk(Drained[i], Drained[j], TRUE) :
       LET r == CopyFromHostAsync(Drained[i], Drained[j], junk)
       IN  Step(Call("CopyFromHostAsync", i, j, <<>>, r.st, <<>>, 0),
                [Drained EXCEPT ![i] = r.v],
                IF r.enq THEN <<[dst |-> i, src |-> j]>> ELSE <<>>)

DoCopyToHostAsync(i, j) ==
  /\ Hip(i) /\ ~Hip(j)
  /\ \E junk \in Junk(Drained[j], Drained[i], TRUE) :
       LET r == CopyToHostAsync(Drained[i], Drained[j], junk)
       IN  Step(Call("CopyToHostAsync", i, j, <<>>, r.st, <<>>, 0),
                [Drained EXCEPT ![j] = r.v],
                IF r.enq THEN <<[dst |-> j, src |-> i]>> ELSE <<>>)

DoCopyFromAsync(i, j) ==
  /\ Hip(i)
  /\ \E junk \in Junk(Drained[i], Drained[j], TRUE) :
       LET r == CopyFromAsync(Drained[i], Drained[j], i = j, junk)
       IN  Step(Call("CopyFromAsync", i, j, <<>>, r.st, <<>>, 0),
                [Drained EXCEPT ![i] = r.v],
                IF r.enq THEN <<[dst |-> i, src |-> j]>> ELSE <<>>)

DoCopyToAsync(i, j) ==
  /\ Hip(i)
  /\ \E junk \in Junk(Drained[j], Drained[i], TRUE) :
       LET r == CopyToAsync(Drained[i], Drained[j], i = j, junk)
       IN  Step(Call("CopyToAsync", i, j, <<>>, r.st, <<>>, 0),
                [Drained EXCEPT ![j] = r.v],
                IF r.enq THEN <<[dst |-> j, src |-> i]>> ELSE <<>>)

DoCopyFromPartial(i, j, so, do, n) ==
  /\ Hip(i)
  /\ \E seen \in (IF i = j THEN SUBSET (0 .. n - 1) ELSE {{}}) :
       LET r == CopyFromPartial(Drained[i], Drained[j], i = j, so, do, n, seen)
       IN  Step(Call("CopyFromPartial", i, j, <<so, do, n>>, r.st, <<>>,
                     IF r.st = "ok" THEN 1 ELSE 0),
                [Drained EXCEPT ![i] = r.v], <<>>)

\* hipDeviceSynchronize() by the client while a transfer is enqueued; the
\* record keeps the destination i and the source j of that transfer and, in
\* old, the objects as they are before the synchronization
Sync ==
  /\ pending # <<>>
  /\ Step([Call("Sync", Head(pending).dst, Head(pending).src, <<>>, "ok", <<>>, 0)
            EXCEPT !.old = vec],
          Drained, <<>>)

----------------------------------------------------------------------------
(* The specification of the vector objects' life cycle and copies *)

\* a host vector as its own operations leave it: n elements and an index
\* array of at most n entries
HostStates ==
  UNION {UNION {{[NewVector("host") EXCEPT !.size_ = n, !.vec_ = d,
                                           !.index_size_ = k, !.index_array_ = ix] :
                   d \in Buffers(n), ix \in IndexArrays(k)} :
                k \in 0 .. (IF n < MaxIdx THEN n ELSE MaxIdx)} :
         n \in 0 .. MaxLen}

\* a device vector a client has built with Allocate or SetDataPtr, and
\* SetIndexArray
DeviceStates ==
  {[h EXCEPT !.backend = "hip", !.index_buffer_ = h.index_size_ > 0,
             !.host_buffer_ = h.size_ > 0, !.device_buffer_ = h.size_ > 0] :
     h \in HostStates}

\* object 1 is a device vector, fresh from its constructor, on which the
\* client calls everything; object 2 is the other vector of a copy, on
\* either backend
Init ==
  /\ vec \in {[i \in VecIds |-> IF i = 1 THEN NewVector("hip") ELSE o] :
               o \in DeviceStates \cup HostStates}
  /\ pending = <<>>
  /\ last = NoCall
  /\ vtype = "double"
  /\ size_ = 0
  /\ omp = Idle
  /\ mg = NoMultiGrid

\* the life-cycle calls are made on object 1, the copies on every pair
Next ==
  \/ \E n \in -1 .. MaxLen : DoAllocate(1, n)
  \/ DoClear(1)
  \/ \E n \in 0 .. MaxLen : \E data \in Buffers(n) : DoSetDataPtr(1, data)
  \/ DoLeaveDataPtr(1)
  \/ \E k \in 0 .. MaxIdx : \E index \in IndexArrays(k) : DoSetIndexArray(1, index)
  \/ \E i, j \in VecIds : DoCopyFromHost(i, j)
  \/ \E i, j \in VecIds : DoCopyToHost(i, j)
  \/ \E i, j \in VecIds : DoCopyFrom(i, j)
  \/ \E i, j \in VecIds : DoCopyTo(i, j)
  \/ \E i, j \in VecIds : DoCopyFromHostAsync(i, j)
  \/ \E i, j \in VecIds : DoCopyToHostAsync(i, j)
  \/ \E i, j \in VecIds : DoCopyFromAsync(i, j)
  \/ \E i, j \in VecIds : DoCopyToAsync(i, j)
  \/ Sync

Spec == Init /\ [][Next]_vars

----------------------------------------------------------------------------
(* Properties of the copies *)

CopyFromOps == {"CopyFrom", "CopyFromHost", "CopyFromAsync", "CopyFromHostAsync"}

CopyToOps == {"CopyTo", "CopyToHost", "CopyToAsync", "CopyToHostAsync"}

\* the destination and the source object of the copy call c
DstOf(c) == IF c.op \in CopyFromOps THEN c.i ELSE c.j

SrcOf(c) == IF c.op \in CopyFromOps THEN c.j ELSE c.i

\* the destination holds what the source held before the call: sizes,
\* elements, index entries, with index storage of its own
HoldsCopyOf(d, s) ==
  /\ d.size_ = s.size_
  /\ d.vec_ = s.vec_
  /\ d.index_size_ = s.index_size_
  /\ d.index_array_ = s.index_array_
  /\ Len(d.index_array_) = d.index_size_
  /\ (d.backend = "hip" /\ d.index_size_ > 0 => d.index_buffer_)

\* C8: CopyFrom(src) / CopyTo(dst) with an empty destination (size 0) and a
\* source on either backend completes; the destination then has the source's
\* size, its index-array size with freshly allocated index storage, the same
\* elements and the same index entries; the source is unchanged.
C8_CopyIntoEmpty ==
  (last.op \in {"CopyFrom", "CopyTo"} /\ last.old[DstOf(last)].size_ = 0)
    => /\ last.st = "ok"
       /\ HoldsCopyOf(vec[DstOf(last)], last.old[SrcOf(last)])
       /\ (SrcOf(last) # DstOf(last) => vec[SrcOf(last)] = last.old[SrcOf(last)])

\* C9: a copy (CopyFrom, CopyTo, CopyFromHost, CopyToHost or an Async
\* variant) into a non-empty destination whose size differs from the
\* source's does not complete normally, and no object is modified.
C9_SizeMismatchIsFatal ==
  (/\ last.op \in CopyFromOps \cup CopyToOps
   /\ last.old[DstOf(last)].size_ > 0
   /\ last.old[DstOf(last)].size_ # last.old[SrcOf(last)].size_)
    => (last.st = "fatal" /\ vec = last.old /\ pending = <<>>)

\* a size mismatch was met by one of the asynchronous copies to the host
C9_Witness ==
  /\ last.op = "CopyToHostAsync"
  /\ last.old[last.j].size_ > 0
  /\ last.old[last.j].size_ # last.old[last.i].size_
  /\ last.old[last.i].index_size_ > 0
  /\ last.st = "fatal"


\* C11: Allocate(n) with n >= 0, on a vector in any reachable state, clears
\* all existing state (data buffer, index array, index buffer and their
\* sizes) and leaves the vector with size n and every element zero;
\* Allocate with n < 0 is fatal.
C11_AllocateClears ==
  last.op = "Allocate" =>
    IF last.arg[1] >= 0
    THEN /\ last.st = "ok"
         /\ vec[last.i].size_ = last.arg[1]
         /\ vec[last.i].vec_ = Zeros(last.arg[1])
         /\ vec[last.i].index_size_ = 0
         /\ vec[last.i].index_array_ = <<>>
         /\ ~vec[last.i].index_buffer_
    ELSE last.st = "fatal" /\ vec = last.old

\* C12: on any vector Allocate(0) leaves the empty state (size 0, no data
\* buffer), and an Allocate(n), n > 0, that follows it completes and gives
\* size n with all elements zero.
C12_AllocateZero ==
  /\ (last.op = "Allocate" /\ last.arg = <<0>>) =>
       /\ last.st = "ok"
       /\ vec[last.i].size_ = 0
       /\ vec[last.i].vec_ = <<>>
  /\ (last.op = "Allocate" /\ last.prev = <<0>> /\ last.arg[1] > 0) =>
       /\ last.st = "ok"
       /\ vec[last.i].size_ = last.arg[1]
       /\ vec[last.i].vec_ = Zeros(last.arg[1])

\* a vector that held elements was emptied by Allocate(0) and then
\* allocated anew
C12_Witness ==
  /\ last.op = "Allocate"
  /\ last.prev = <<0>>
  /\ last.arg = <<MaxLen>>
  /\ last.st = "ok"
  /\ vec[last.i].size_ = MaxLen

\* C13: in every state reachable by Allocate, Clear, SetDataPtr,
\* LeaveDataPtr, SetIndexArray and the copies, a vector's data buffer is
\* non-null iff its size is > 0, and its index-array size is <= its size.
C13_SizeInvariant ==
  Alive =>
    \A i \in VecIds :
      /\ (vec[i].vec_ # <<>>) <=> (vec[i].size_ > 0)
      /\ vec[i].index_size_ <= vec[i].size_


AsyncOps == {"CopyFromHostAsync", "CopyToHostAsync", "CopyFromAsync", "CopyToAsync"}

\* the elements and the index entries of d are those of s
SameData(d, s) == d.vec_ = s.vec_ /\ d.index_array_ = s.index_array_

----------------------------------------------------------------------------
(* Moving a vector to the accelerator and back.  Object 1 is the storage   *)
(* variant the facade (LocalVector) owns; object 2 is a copy of the vector *)
(* as it was built, which no call touches.                                 *)

\* every host vector of at most MaxLen elements with an index array of at
\* most MaxIdx entries
AllHostStates ==
  UNION {UNION {{[NewVector("host") EXCEPT !.size_ = n, !.vec_ = d,
                                           !.index_size_ = k, !.index_array_ = ix] :
                   d \in [1 .. n -> Val], ix \in [1 .. k -> IdxVal]} :
                k \in 0 .. (IF n < MaxIdx THEN n ELSE MaxIdx)} :
         n \in 0 .. MaxLen}

\* LocalVector::MoveToAccelerator(): CopyFromHost into a new, empty device
\* vector, which replaces the host vector
MoveToAccelerator ==
  /\ vec[1].backend = "host"
  /\ \E junk \in Junk(NewVector("hip"), vec[1], FALSE) :
       LET r == CopyFromHost(NewVector("hip"), vec[1], junk)
       IN  Step(Call("MoveToAccelerator", 1, 0, <<>>, r.st, <<>>, 0),
                [vec EXCEPT ![1] = IF r.st = "ok" THEN r.v ELSE @], <<>>)

\* LocalVector::MoveToHost(): CopyToHost into a new, empty host vector,
\* which replaces the device vector
MoveToHost ==
  /\ vec[1].backend = "hip"
  /\ \E junk \in Junk(NewVector("host"), vec[1], FALSE) :
       LET r == CopyToHost(vec[1], NewVector("host"), junk)
       IN  Step(Call("MoveToHost", 1, 0, <<>>, r.st, <<>>, 0),
                [vec EXCEPT ![1] = IF r.st = "ok" THEN r.v ELSE @], <<>>)

InitMove ==
  /\ vec \in {[i \in VecIds |-> h] : h \in AllHostStates}
  /\ pending = <<>>
  /\ last = NoCall
  /\ vtype = "double"
  /\ size_ = 0
  /\ omp = Idle
  /\ mg = NoMultiGrid

NextMove == MoveToAccelerator \/ MoveToHost

SpecMove == InitMove /\ [][NextMove]_vars

\* C1: MoveToAccelerator() followed by MoveToHost() gives a host vector with
\* the size, the elements, the index-array size and the index entries of the
\* original, for every size and with or without an index array; both moves
\* complete.
C1_RoundTrip ==
  /\ last.st = "ok"
  /\ last.op = "MoveToHost"
       => /\ vec[1].backend = "host"
          /\ vec[1].size_ = vec[2].size_
          /\ vec[1].vec_ = vec[2].vec_
          /\ vec[1].index_size_ = vec[2].index_size_
          /\ vec[1].index_array_ = vec[2].index_array_

\* a vector with an index array has made the round trip
C1_Witness ==
  /\ last.op = "MoveToHost"
  /\ last.st = "ok"
  /\ vec[2].size_ = MaxLen
  /\ vec[2].index_size_ > 0
  /\ \E k \in 1 .. vec[2].index_size_ : vec[2].index_array_[k] # 0

----------------------------------------------------------------------------
(* The copy of a window: one call on two vectors a client has built *)

\* a vector on backend b holding the elements d and the index array ix, as
\* Allocate / SetDataPtr and SetIndexArray build it
Built(b, d, ix) ==
  [backend |-> b, size_ |-> Len(d), vec_ |-> d,
   index_size_ |-> Len(ix), index_array_ |-> ix,
   index_buffer_ |-> (b = "hip" /\ Len(ix) > 0),
   host_buffer_ |-> (b = "hip" /\ Len(d) > 0),
   device_buffer_ |-> (b = "hip" /\ Len(d) > 0),
   lost |-> 0, nullfree |-> 0, freed |-> {}]

WindowStates(b) ==
  UNION {{Built(b, d, ix) : d \in Buffers(n),
                            ix \in {x \in {<<>>, <<0>>} : Len(x) <= n}} :
         n \in 0 .. MaxN}

InitWindow ==
  /\ vec \in {[i \in VecIds |-> IF i = 1 THEN t ELSE o] :
               t \in WindowStates("hip"),
               o \in WindowStates("hip") \cup WindowStates("host")}
  /\ pending = <<>>
  /\ last = NoCall
  /\ vtype = "double"
  /\ size_ = 0
  /\ omp = Idle
  /\ mg = NoMultiGrid

NextWindow ==
  /\ last.op = "none"
  /\ \E i, j \in VecIds, so, do, n \in 0 .. MaxN : DoCopyFromPartial(i, j, so, do, n)

SpecWindow == InitWindow /\ [][NextWindow]_vars

\* the operands of the window copy last made: destination, source, offsets
WinThis == last.old[last.i]

WinSrc == last.old[last.j]

WinSo == last.arg[1]

WinDo == last.arg[2]

WinLen == last.arg[3]

\* the destination's window holds the source's window as it was
WindowCopied ==
  \A t \in 0 .. WinLen - 1 :
    vec[last.i].vec_[WinDo + t + 1] = WinSrc.vec_[WinSo + t + 1]

\* everything of the destination but the window's elements is as before
OutsideWindowKept ==
  /\ vec[last.i] = [WinThis EXCEPT !.vec_ = vec[last.i].vec_]
  /\ Len(vec[last.i].vec_) = WinThis.size_
  /\ \A k \in 1 .. WinThis.size_ :
       (k - 1 < WinDo \/ k - 1 >= WinDo + WinLen)
         => vec[last.i].vec_[k] = WinThis.vec_[k]

WindowsApart == WinSo + WinLen <= WinDo \/ WinDo + WinLen <= WinSo

----------------------------------------------------------------------------
(* HostStencilLaplace2D: Apply and ApplyAdd on host vectors.  vec[1] is the
   argument in, vec[2] the argument out.  The loops under
   "#pragma omp parallel for" are run by a team of threads that share the
   variable idx, declared outside the loops; each thread takes the
   iterations it is given in order, assigning idx and then using it. *)

\* HostStencilLaplace2D::ndim_, set by the constructor
ndim_ == 2

\* BaseStencil::get_nrow: the number of grid points
get_nrow == size_ * size_

\* what a read outside the input's buffer may return
Garbage == {0, 1}

\* the statement  out[idx] (+)= sum of coefficient * in[idx + offset]
Stmt(idx, offs) == [idx |-> idx, offs |-> offs]

\* the body of the interior loop for row i
RECURSIVE InteriorRow(_, _, _)
InteriorRow(n, i, j) ==
  IF j >= n - 1 THEN <<>>
  ELSE <<Stmt(i * n + j, <<-n, -1, 0, 1, n>>)>> \o InteriorRow(n, i, j + 1)

\* the body of the first boundary loop for column j: top and bottom row
TopBottom(n, j) ==
  <<Stmt(0 * n + j, <<-1, 0, 1, n>>),
    Stmt((n - 1) * n + j, <<-n, -1, 0, 1>>)>>

\* the body of the second boundary loop for row i: left and right column
LeftRight(n, i) ==
  <<Stmt(i * n + 0, <<-n, 0, 1, n>>),
    Stmt(i * n + n - 1, <<-n, -1, 0, n>>)>>

\* the four boundary points, after the loops
Corners(n) ==
  <<Stmt(0 * n + 0, <<0, 1, n>>),
    Stmt(0 * n + n - 1, <<-1, 0, n>>),
    Stmt((n - 1) * n + 0, <<-n, 0, 1>>),
    Stmt((n - 1) * n + n - 1, <<-n, -1, 0>>)>>

\* the body of iteration k of the loop of phase ph
Body(ph, n, k) ==
  IF ph = 1 THEN InteriorRow(n, k, 1)
  ELSE IF ph = 2 THEN TopBottom(n, k)
  ELSE LeftRight(n, k)

\* the statements thread t runs in the loop of phase ph when the
\* iterations 1 .. n-2 are shared out as assign says
RECURSIVE Share(_, _, _, _, _)
Share(ph, n, assign, t, k) ==
  IF k >= n - 1 THEN <<>>
  ELSE (IF assign[k] = t THEN Body(ph, n, k) ELSE <<>>)
         \o Share(ph, n, assign, t, k + 1)

\* in.vec_[k], for k inside the buffer or not
ReadIn(in, k, g) == IF k >= 0 /\ k < Len(in) THEN in[k + 1] ELSE g

\* the right-hand side of a statement, evaluated at index idx
RECURSIVE Terms(_, _, _, _, _)
Terms(offs, idx, in, g, p) ==
  IF p > Len(offs) THEN 0
  ELSE (IF offs[p] = 0 THEN 4 ELSE -1) * ReadIn(in, idx + offs[p], g[p])
         + Terms(offs, idx, in, g, p + 1)

\* the values the reads of a statement outside the buffer may return
GarbageFor(offs, idx, in) ==
  {g \in [1 .. Len(offs) -> Garbage] :
     \A p \in 1 .. Len(offs) :
       (idx + offs[p] >= 0 /\ idx + offs[p] < Len(in)) => g[p] = 0}

\* every thread of the team has finished its share of the loop
TeamDone == \A t \in Threads : omp.todo[t] = <<>>

StencilCall(st) ==
  [Call(IF omp.add THEN "ApplyAdd" ELSE "Apply", 1, 2, <<omp.scalar>>, st, <<>>, 0)
     EXCEPT !.old = omp.old]

\* entry of HostStencilLaplace2D::Apply(in, out) and, with add,
\* ApplyAdd(in, scalar, out): the guard, the asserts, the team's start on
\* the interior loop
BeginStencil(add, scalar) ==
  /\ Alive
  /\ omp.phase = 0
  /\ UNCHANGED <<vec, pending, vtype, size_, mg>>
  /\ LET op == IF add THEN "ApplyAdd" ELSE "Apply"
         in == vec[1]
         out == vec[2]
     IN IF ~((ndim_ > 0) /\ (size_ > 0))
        THEN /\ last' = Call(op, 1, 2, <<scalar>>, "ok", <<>>, 0)
             /\ UNCHANGED omp
        ELSE IF \/ ~(in.size_ = get_nrow) \/ ~(out.size_ = get_nrow)
                \/ in.backend # "host" \/ out.backend # "host"
        THEN /\ last' = Call(op, 1, 2, <<scalar>>, "fatal", <<>>, 0)
             /\ UNCHANGED omp
        ELSE /\ \E assign \in [1 .. size_ - 2 -> Threads] :
                  omp' = [phase |-> 1, add |-> add, scalar |-> scalar, idx |-> 0,
                          todo |-> [t \in Threads |-> Share(1, size_, assign, t, 1)],
                          set |-> [t \in Threads |-> FALSE],
                          old |-> vec]
             /\ UNCHANGED last

\* thread t runs  idx = ...  of its next statement
ThreadSetIdx(t) ==
  /\ Alive
  /\ omp.phase \in 1 .. 4
  /\ omp.todo[t] # <<>>
  /\ ~omp.set[t]
  /\ omp' = [omp EXCEPT !.idx = Head(omp.todo[t]).idx, !.set[t] = TRUE]
  /\ UNCHANGED <<vec, pending, last, vtype, size_, mg>>

\* thread t runs  cast_out->vec_[idx] = ...  (+= in ApplyAdd) of its
\* statement, with the value idx has by now
ThreadStore(t) ==
  /\ Alive
  /\ omp.phase \in 1 .. 4
  /\ omp.todo[t] # <<>>
  /\ omp.set[t]
  /\ LET s == Head(omp.todo[t])
         in == vec[1].vec_
         out == vec[2].vec_
     IN \E g \in GarbageFor(s.offs, omp.idx, in) :
          vec' = [vec EXCEPT ![2].vec_[omp.idx + 1] =
                    (IF omp.add THEN out[omp.idx + 1] ELSE 0)
                      + Terms(s.offs, omp.idx, in, g, 1)]
  /\ omp' = [omp EXCEPT !.todo[t] = Tail(omp.todo[t]), !.set[t] = FALSE]
  /\ UNCHANGED <<pending, last, vtype, size_, mg>>

\* the end of a parallel loop: the team starts on the next loop, or the
\* encountering thread on the four boundary points
Barrier ==
  /\ Alive
  /\ omp.phase \in 1 .. 3
  /\ TeamDone
  /\ IF omp.phase < 3
     THEN \E assign \in [1 .. size_ - 2 -> Threads] :
            omp' = [omp EXCEPT !.phase = omp.phase + 1,
                               !.todo = [t \in Threads |->
                                           Share(omp.phase + 1, size_, assign, t, 1)]]
     ELSE omp' = [omp EXCEPT !.phase = 4,
                             !.todo = [t \in Threads |->
                                         IF t = 1 THEN Corners(size_) ELSE <<>>]]
  /\ UNCHANGED <<vec, pending, last, vtype, size_, mg>>

\* the call returns
EndStencil ==
  /\ Alive
  /\ omp.phase = 4
  /\ TeamDone
  /\ last' = StencilCall("ok")
  /\ omp' = Idle
  /\ UNCHANGED <<vec, pending, vtype, size_, mg>>

\* the vectors a client hands to the stencil
GridVectors(m) ==
  {Built("host", d, <<>>) :
     d \in {[k \in 1 .. m |-> k], [k \in 1 .. m |-> (k * k) % 5], Zeros(m)}}

Scalars == 0 .. 2

InitStencil ==
  /\ size_ \in -1 .. MaxGrid
  /\ vec \in {[i \in VecIds |-> IF i = 1 THEN in ELSE out] :
               in \in GridVectors(IF size_ > 0 THEN size_ * size_ ELSE 1),
               out \in GridVectors(IF size_ > 0 THEN size_ * size_ ELSE 1)
                         \cup GridVectors(0)}
  /\ pending = <<>>
  /\ last = NoCall
  /\ vtype = "double"
  /\ omp = Idle
  /\ mg = NoMultiGrid

NextStencil ==
  \/ /\ last.op = "none"
     /\ \E add \in BOOLEAN, scalar \in Scalars :
          (add \/ scalar = 0) /\ BeginStencil(add, scalar)
  \/ \E t \in Threads : ThreadSetIdx(t)
  \/ \E t \in Threads : ThreadStore(t)
  \/ Barrier
  \/ EndStencil

SpecStencil == InitStencil /\ [][NextStencil]_vars

\* the 5-point Laplacian of the grid function in on the n x n grid
Laplacian(in, n) ==
  [k \in 1 .. n * n |->
     LET i == (k - 1) \div n
         j == (k - 1) % n
     IN 4 * in[k]
          - (IF i > 0 THEN in[k - n] ELSE 0)
          - (IF i < n - 1 THEN in[k + n] ELSE 0)
          - (IF j > 0 THEN in[k - 1] ELSE 0)
          - (IF j < n - 1 THEN in[k + 1] ELSE 0)]

\* C2: for every grid size >= 1, ApplyAdd(in, scalar, out) leaves
\* out = old out + scalar * (A * in), A the 5-point Laplacian, and in
\* unchanged.
C2_ApplyAdd ==
  (last.op = "ApplyAdd" /\ last.st = "ok" /\ size_ >= 1) =>
    /\ vec[2].vec_ = [k \in 1 .. size_ * size_ |->
                        last.old[2].vec_[k]
                          + last.arg[1] * Laplacian(vec[1].vec_, size_)[k]]
    /\ vec[1] = last.old[1]

\* C3: for every grid size >= 1, Apply(in, out) writes every element of out
\* the 5-point Laplacian value of in; for size_ <= 0 it changes nothing.
C3_Apply ==
  (last.op = "Apply" /\ last.st = "ok") =>
    IF size_ >= 1
    THEN vec[2].vec_ = Laplacian(vec[1].vec_, size_)
    ELSE vec = last.old

----------------------------------------------------------------------------
(* Vector arithmetic.  The backend primitives (hipBLAS calls and kernels)
   are opaque to the vector class; they are given the meaning the interface
   contract states for them.  Element values are integers; a vector of a
   complex type holds values with imaginary part zero. *)

\* the element types the class is instantiated with
ValueTypes == {"double", "float", "complex", "int"}

\* the scalars a client passes
Alphas == {-1, 2}

\* rocalution_abs
rocalution_abs(a) == IF a < 0 THEN -a ELSE a

\* the sum of f[1] .. f[n]
RECURSIVE SumTo(_, _)
SumTo(f, n) == IF n = 0 THEN 0 ELSE f[n] + SumTo(f, n - 1)

\* the non-negative number whose square is s
Root(s) == [square |-> s]

\* y = alpha * x + y
hipblasTaxpy(alpha, x, y) == [k \in 1 .. Len(y) |-> alpha * x[k] + y[k]]

\* x = alpha * x
hipblasTscal(alpha, x) == [k \in 1 .. Len(x) |-> alpha * x[k]]

\* a complex value re + im*i is held as the integer re + im*ImagBase, a real
\* value as itself; the parts stay below ImagBase/2 in magnitude
ImagBase == 100

Cx(re, im) == re + im * ImagBase

Im(a) == (a + ImagBase \div 2) \div ImagBase

Re(a) == a - Im(a) * ImagBase

\* the product of two values
Mul(a, b) == Cx(Re(a) * Re(b) - Im(a) * Im(b), Re(a) * Im(b) + Im(a) * Re(b))

\* the inner product of x and y, neither conjugated
hipblasTdot(x, y) == SumTo([k \in 1 .. Len(x) |-> Mul(x[k], y[k])], Len(x))

\* the conjugate of a value
Conj(a) == Cx(Re(a), -Im(a))

\* the inner product of x and y, x conjugated
hipblasTdotc(x, y) == SumTo([k \in 1 .. Len(x) |-> Mul(Conj(x[k]), y[k])], Len(x))

\* the Euclidean norm of x
hipblasTnrm2(x) == Root(SumTo([k \in 1 .. Len(x) |-> x[k] * x[k]], Len(x)))

\* the sum of the absolute values of x
hipblasTasum(x) == SumTo([k \in 1 .. Len(x) |-> rocalution_abs(x[k])], Len(x))

\* the sum of x
reduce_hip(x) == SumTo(x, Len(x))

\* the indices of the elements of x of largest magnitude, of which the
\* primitive returns one
hipblasTamax(x) ==
  {i \in 0 .. Len(x) - 1 :
     \A k \in 1 .. Len(x) : rocalution_abs(x[i + 1]) >= rocalution_abs(x[k])}

\* out = alpha * out + x
kernel_scaleadd(alpha, x, out) == [k \in 1 .. Len(out) |-> alpha * out[k] + x[k]]

\* out = alpha * out + beta * x
kernel_scaleaddscale(alpha, beta, x, out) ==
  [k \in 1 .. Len(out) |-> alpha * out[k] + beta * x[k]]

\* out = alpha * out + beta * x + gamma * y
kernel_scaleadd2(alpha, beta, gamma, x, y, out) ==
  [k \in 1 .. Len(out) |-> alpha * out[k] + beta * x[k] + gamma * y[k]]

\* out = out * x
kernel_pointwisemult(x, out) == [k \in 1 .. Len(out) |-> out[k] * x[k]]

\* out = x * y
kernel_pointwisemult2(x, y, out) == [k \in 1 .. Len(out) |-> x[k] * y[k]]

\* p holds every index 0 .. Len(p)-1 exactly once
IsPermutation(p) ==
  /\ \A k \in 1 .. Len(p) : p[k] \in 0 .. Len(p) - 1
  /\ \A k, l \in 1 .. Len(p) : p[k] = p[l] => k = l

\* out[p[i]] = in[i]
kernel_permute(p, in, out) ==
  [k \in 1 .. Len(out) |->
     LET pre == {i \in 1 .. Len(p) : p[i] = k - 1}
     IN  IF pre = {} THEN out[k] ELSE in[CHOOSE i \in pre : TRUE]]

\* out[i] = in[p[i]]
kernel_permute_backward(p, in, out) == [k \in 1 .. Len(out) |-> in[p[k] + 1]]

\* the outcome of a call: how it ended, the object, what it returned, and
\* how many backend primitives it invoked
Res(st, v, ret, prims) == [st |-> st, v |-> v, ret |-> ret, prims |-> prims]

\* a call that ends in a fatal error: nothing is returned
Abort(v) == Res("fatal", v, <<>>, 0)

\* a call that finds nothing to do
NoOp(v) == Res("ok", v, <<>>, 0)

\* Scale guarding nothing: the primitive is invoked whatever the size
ScaleUnguarded(this, alpha) ==
  IF vtype = "int" THEN Abort(this)
  ELSE Res("ok", [this EXCEPT !.vec_ = hipblasTscal(alpha, @)], <<>>, 1)

\* HIPAcceleratorVector::Scale(alpha), and its specialization for int
Scale(this, alpha) ==
  IF vtype = "int" THEN Abort(this)
  ELSE IF this.size_ > 0
  THEN Res("ok", [this EXCEPT !.vec_ = hipblasTscal(alpha, @)], <<>>, 1)
  ELSE NoOp(this)

\* HIPAcceleratorVector::AddScale(x, alpha), and its specialization for int
AddScale(this, x, alpha) ==
  IF vtype = "int" THEN Abort(this)
  ELSE IF this.size_ > 0
  THEN IF ~(this.size_ = x.size_) THEN Abort(this)
       ELSE IF x.backend # "hip" THEN Abort(this)
       ELSE Res("ok", [this EXCEPT !.vec_ = hipblasTaxpy(alpha, x.vec_, @)], <<>>, 1)
  ELSE NoOp(this)

\* HIPAcceleratorVector::ScaleAdd(alpha, x)
ScaleAdd(this, alpha, x) ==
  IF this.size_ > 0
  THEN IF ~(this.size_ = x.size_) THEN Abort(this)
       ELSE IF x.backend # "hip" THEN Abort(this)
       ELSE Res("ok", [this EXCEPT !.vec_ = kernel_scaleadd(alpha, x.vec_, @)], <<>>, 1)
  ELSE NoOp(this)

\* ScaleAddScale that drops beta: this = alpha * this + x
ScaleAddScaleNoBeta(this, alpha, x, beta) == ScaleAdd(this, alpha, x)

\* HIPAcceleratorVector::ScaleAddScale(alpha, x, beta)
ScaleAddScale(this, alpha, x, beta) ==
  IF this.size_ > 0
  THEN IF ~(this.size_ = x.size_) THEN Abort(this)
       ELSE IF x.backend # "hip" THEN Abort(this)
       ELSE Res("ok", [this EXCEPT !.vec_ = kernel_scaleaddscale(alpha, beta, x.vec_, @)],
                <<>>, 1)
  ELSE NoOp(this)

\* HIPAcceleratorVector::ScaleAdd2(alpha, x, beta, y, gamma)
ScaleAdd2(this, alpha, x, beta, y, gamma) ==
  IF this.size_ > 0
  THEN IF ~(this.size_ = x.size_) THEN Abort(this)
       ELSE IF ~(this.size_ = y.size_) THEN Abort(this)
       ELSE IF x.backend # "hip" THEN Abort(this)
       ELSE IF y.backend # "hip" THEN Abort(this)
       ELSE Res("ok", [this EXCEPT !.vec_ =
                         kernel_scaleadd2(alpha, beta, gamma, x.vec_, y.vec_, @)],
                <<>>, 1)
  ELSE NoOp(this)

\* HIPAcceleratorVector::PointWiseMult(x)
PointWiseMult(this, x) ==
  IF this.size_ > 0
  THEN IF ~(this.size_ = x.size_) THEN Abort(this)
       ELSE IF x.backend # "hip" THEN Abort(this)
       ELSE Res("ok", [this EXCEPT !.vec_ = kernel_pointwisemult(x.vec_, @)], <<>>, 1)
  ELSE NoOp(this)

\* HIPAcceleratorVector::PointWiseMult(x, y)
PointWiseMult2(this, x, y) ==
  IF this.size_ > 0
  THEN IF ~(this.size_ = x.size_) THEN Abort(this)
       ELSE IF ~(this.size_ = y.size_) THEN Abort(this)
       ELSE IF x.backend # "hip" THEN Abort(this)
       ELSE IF y.backend # "hip" THEN Abort(this)
       ELSE Res("ok", [this EXCEPT !.vec_ = kernel_pointwisemult2(x.vec_, y.vec_, @)],
                <<>>, 1)
  ELSE NoOp(this)

\* HIPAcceleratorVector::Dot(x), and its specialization for int
Dot(this, x) ==
  IF vtype = "int" THEN Abort(this)
  ELSE IF ~(this.size_ = x.size_) THEN Abort(this)
  ELSE IF x.backend # "hip" THEN Abort(this)
  ELSE IF this.size_ > 0
  THEN Res("ok", this, <<hipblasTdot(this.vec_, x.vec_)>>, 1)
  ELSE Res("ok", this, <<0>>, 0)

\* HIPAcceleratorVector::DotNonConj(x), and its specialization for int
DotNonConj(this, x) ==
  IF vtype = "int" THEN Abort(this)
  ELSE IF ~(this.size_ = x.size_) THEN Abort(this)
  ELSE IF x.backend # "hip" THEN Abort(this)
  ELSE IF this.size_ > 0
  THEN Res("ok", this, <<hipblasTdotc(this.vec_, x.vec_)>>, 1)
  ELSE Res("ok", this, <<0>>, 0)

\* HIPAcceleratorVector::Norm(), and its specialization for int
Norm(this) ==
  IF vtype = "int" THEN Abort(this)
  ELSE IF this.size_ > 0
  THEN Res("ok", this, <<hipblasTnrm2(this.vec_)>>, 1)
  ELSE Res("ok", this, <<Root(0)>>, 0)

\* HIPAcceleratorVector::Reduce(), and its specialization for int; the
\* device's warp size is one of the two supported
Reduce(this) ==
  IF vtype = "int" THEN Abort(this)
  ELSE IF this.size_ > 0
  THEN Res("ok", this, <<reduce_hip(this.vec_)>>, 1)
  ELSE Res("ok", this, <<0>>, 0)

\* HIPAcceleratorVector::Asum(), and its specialization for int
Asum(this) ==
  IF vtype = "int" THEN Abort(this)
  ELSE IF this.size_ > 0
  THEN Res("ok", this, <<hipblasTasum(this.vec_)>>, 1)
  ELSE Res("ok", this, <<0>>, 0)

\* Amax returning the element itself, not its absolute value
AmaxSigned(this, index) ==
  IF vtype = "int" THEN Abort(this)
  ELSE IF this.size_ > 0
  THEN Res("ok", this, <<index, this.vec_[index + 1]>>, 2)
  ELSE Res("ok", this, <<0, 0>>, 0)

\* HIPAcceleratorVector::Amax(value), and its specialization for int;
\* index is what hipblasTamax stores; returns <<index, value>>
Amax(this, index) ==
  IF vtype = "int" THEN Abort(this)
  ELSE IF this.size_ > 0
  THEN Res("ok", this, <<index, rocalution_abs(this.vec_[index + 1])>>, 2)
  ELSE Res("ok", this, <<0, rocalution_abs(0)>>, 0)

\* HIPAcceleratorVector::Permute(permutation)
Permute(this, permutation) ==
  IF this.size_ > 0
  THEN IF ~(this.size_ = permutation.size_) THEN Abort(this)
       ELSE IF permutation.backend # "hip" THEN Abort(this)
       ELSE LET vec_tmp == CopyFrom(Allocate(NewVector("hip"), this.size_),
                                    this, FALSE, <<>>)
            IN  IF vec_tmp.st = "fatal" THEN Abort(this)
                ELSE Res("ok",
                         EndOfScope([this EXCEPT !.vec_ =
                                       kernel_permute(permutation.vec_,
                                                      vec_tmp.v.vec_, @)],
                                    vec_tmp.v),
                         <<>>, 2)
  ELSE NoOp(this)

\* HIPAcceleratorVector::PermuteBackward(permutation)
PermuteBackward(this, permutation) ==
  IF this.size_ > 0
  THEN IF ~(this.size_ = permutation.size_) THEN Abort(this)
       ELSE IF permutation.backend # "hip" THEN Abort(this)
       ELSE LET vec_tmp == CopyFrom(Allocate(NewVector("hip"), this.size_),
                                    this, FALSE, <<>>)
            IN  IF vec_tmp.st = "fatal" THEN Abort(this)
                ELSE Res("ok",
                         EndOfScope([this EXCEPT !.vec_ =
                                       kernel_permute_backward(permutation.vec_,
                                                               vec_tmp.v.vec_, @)],
                                    vec_tmp.v),
                         <<>>, 2)
  ELSE NoOp(this)

\* HIPAcceleratorVector::CopyFromPermute(src, permutation)
CopyFromPermute(this, src, permutation) ==
  IF this.size_ > 0
  THEN IF permutation.backend # "hip" THEN Abort(this)
       ELSE IF src.backend # "hip" THEN Abort(this)
       ELSE IF ~(src.size_ = this.size_) THEN Abort(this)
       ELSE IF ~(permutation.size_ = this.size_) THEN Abort(this)
       ELSE Res("ok", [this EXCEPT !.vec_ =
                         kernel_permute(permutation.vec_, src.vec_, @)], <<>>, 1)
  ELSE NoOp(this)

\* HIPAcceleratorVector::CopyFromPermuteBackward(src, permutation)
CopyFromPermuteBackward(this, src, permutation) ==
  IF this.size_ > 0
  THEN IF permutation.backend # "hip" THEN Abort(this)
       ELSE IF src.backend # "hip" THEN Abort(this)
       ELSE IF ~(src.size_ = this.size_) THEN Abort(this)
       ELSE IF ~(permutation.size_ = this.size_) THEN Abort(this)
       ELSE Res("ok", [this EXCEPT !.vec_ =
                         kernel_permute_backward(permutation.vec_, src.vec_, @)],
                <<>>, 1)
  ELSE NoOp(this)

\* one arithmetic call on object i with outcome r
ArithStep(op, i, j, k, arg, r) ==
  Step([Call(op, i, j, arg, r.st, r.ret, r.prims) EXCEPT !.k = k],
       [Drained EXCEPT ![i] = r.v], <<>>)

DoScale(i, alpha) ==
  /\ Hip(i)
  /\ ArithStep("Scale", i, 0, 0, <<alpha>>, Scale(Drained[i], alpha))

DoAddScale(i, j, alpha) ==
  /\ Hip(i)
  /\ ArithStep("AddScale", i, j, 0, <<alpha>>, AddScale(Drained[i], Drained[j], alpha))

DoScaleAdd(i, j, alpha) ==
  /\ Hip(i)
  /\ ArithStep("ScaleAdd", i, j, 0, <<alpha>>, ScaleAdd(Drained[i], alpha, Drained[j]))

DoScaleAddScale(i, j, alpha, beta) ==
  /\ Hip(i)
  /\ ArithStep("ScaleAddScale", i, j, 0, <<alpha, beta>>,
               ScaleAddScale(Drained[i], alpha, Drained[j], beta))

DoScaleAdd2(i, j, k, alpha, beta, gamma) ==
  /\ Hip(i)
  /\ ArithStep("ScaleAdd2", i, j, k, <<alpha, beta, gamma>>,
               ScaleAdd2(Drained[i], alpha, Drained[j], beta, Drained[k], gamma))

DoPointWiseMult(i, j) ==
  /\ Hip(i)
  /\ ArithStep("PointWiseMult", i, j, 0, <<>>, PointWiseMult(Drained[i], Drained[j]))

DoPointWiseMult2(i, j, k) ==
  /\ Hip(i)
  /\ ArithStep("PointWiseMult2", i, j, k, <<>>,
               PointWiseMult2(Drained[i], Drained[j], Drained[k]))

DoDot(i, j) ==
  /\ Hip(i)
  /\ ArithStep("Dot", i, j, 0, <<>>, Dot(Drained[i], Drained[j]))

DoDotNonConj(i, j) ==
  /\ Hip(i)
  /\ ArithStep("DotNonConj", i, j, 0, <<>>, DotNonConj(Drained[i], Drained[j]))

DoNorm(i) ==
  /\ Hip(i)
  /\ ArithStep("Norm", i, 0, 0, <<>>, Norm(Drained[i]))

DoReduce(i) ==
  /\ Hip(i)
  /\ ArithStep("Reduce", i, 0, 0, <<>>, Reduce(Drained[i]))

DoAsum(i) ==
  /\ Hip(i)
  /\ ArithStep("Asum", i, 0, 0, <<>>, Asum(Drained[i]))

DoAmax(i) ==
  /\ Hip(i)
  /\ \E index \in (IF Drained[i].size_ > 0 THEN hipblasTamax(Drained[i].vec_) ELSE {0}) :
       ArithStep("Amax", i, 0, 0, <<>>, Amax(Drained[i], index))

\* the vector a client passes as permutation holds a permutation of the
\* indices whenever the call gets as far as using its elements
PermutationArg(this, p) ==
  this.size_ = 0 \/ this.size_ # p.size_ \/ p.backend # "hip" \/ IsPermutation(p.vec_)

DoPermute(i, j) ==
  /\ Hip(i)
  /\ PermutationArg(Drained[i], Drained[j])
  /\ ArithStep("Permute", i, j, 0, <<>>, Permute(Drained[i], Drained[j]))

DoPermuteBackward(i, j) ==
  /\ Hip(i)
  /\ PermutationArg(Drained[i], Drained[j])
  /\ ArithStep("PermuteBackward", i, j, 0, <<>>,
               PermuteBackward(Drained[i], Drained[j]))

\* source j and permutation k are objects other than the destination i (the
\* kernel reads them while it writes the destination)
DoCopyFromPermute(i, j, k) ==
  /\ Hip(i) /\ j # i /\ k # i
  /\ PermutationArg(Drained[i], Drained[k])
  /\ ArithStep("CopyFromPermute", i, j, k, <<>>,
               CopyFromPermute(Drained[i], Drained[j], Drained[k]))

DoCopyFromPermuteBackward(i, j, k) ==
  /\ Hip(i) /\ j # i /\ k # i
  /\ PermutationArg(Drained[i], Drained[k])
  /\ ArithStep("CopyFromPermuteBackward", i, j, k, <<>>,
               CopyFromPermuteBackward(Drained[i], Drained[j], Drained[k]))

\* the element sequences of length n the arithmetic is run on
ArithData(n) == [1 .. n -> {-2, 1}]

ArithStates(b) ==
  UNION {{Built(b, d, ix) :
            d \in ArithData(n),
            ix \in {x \in {<<>>, <<0>>} : Len(x) <= n /\ (b = "hip" \/ x = <<>>)}} :
         n \in 0 .. MaxN}

\* the device vectors of int that hold a permutation
PermStates ==
  UNION {{Built("hip", p, <<>>) : p \in {q \in [1 .. n -> 0 .. n - 1] : IsPermutation(q)}} :
         n \in 1 .. MaxN}

InitArith ==
  /\ vtype \in ValueTypes
  /\ vec \in {[i \in VecIds |-> IF i = 1 THEN t ELSE o] :
               t \in ArithStates("hip"),
               o \in ArithStates("hip") \cup ArithStates("host") \cup PermStates}
  /\ pending = <<>>
  /\ last = NoCall
  /\ size_ = 0
  /\ omp = Idle
  /\ mg = NoMultiGrid

NextArith ==
  /\ last.op = "none"
  /\ \/ \E alpha \in Alphas : DoScale(1, alpha)
     \/ \E j \in VecIds, alpha \in Alphas : DoAddScale(1, j, alpha)
     \/ \E j \in VecIds, alpha \in Alphas : DoScaleAdd(1, j, alpha)
     \/ \E j \in VecIds, alpha, beta \in Alphas : DoScaleAddScale(1, j, alpha, beta)
     \/ \E j, k \in VecIds, alpha, beta, gamma \in Alphas :
          DoScaleAdd2(1, j, k, alpha, beta, gamma)
     \/ \E j \in VecIds : DoPointWiseMult(1, j)
     \/ \E j, k \in VecIds : DoPointWiseMult2(1, j, k)
     \/ \E j \in VecIds : DoDot(1, j)
     \/ \E j \in VecIds : DoDotNonConj(1, j)
     \/ DoNorm(1)
     \/ DoReduce(1)
     \/ DoAsum(1)
     \/ DoAmax(1)
     \/ \E j \in VecIds : DoPermute(1, j)
     \/ \E j \in VecIds : DoPermuteBackward(1, j)
     \/ \E j, k \in VecIds : DoCopyFromPermute(1, j, k)
     \/ \E j, k \in VecIds : DoCopyFromPermuteBackward(1, j, k)

SpecArith == InitArith /\ [][NextArith]_vars

\* the object an arithmetic call was made on, and its operands, as they
\* were before the call
OldThis == last.old[last.i]

OldX == last.old[last.j]

OldY == last.old[last.k]

\* C4: for every non-empty vector v of size n and every permutation p of
\* 0 .. n-1, Permute(p) sets v[p[i]] = old v[i] and PermuteBackward(p) sets
\* v[i] = old v[p[i]] for all i (so that the one undoes the other).
C4_Permute ==
  (/\ last.op \in {"Permute", "PermuteBackward"}
   /\ OldThis.size_ > 0
   /\ OldX.backend = "hip"
   /\ OldX.size_ = OldThis.size_
   /\ IsPermutation(OldX.vec_)) =>
    /\ last.st = "ok"
    /\ \A t \in 1 .. OldThis.size_ :
         IF last.op = "Permute"
         THEN vec[last.i].vec_[OldX.vec_[t] + 1] = OldThis.vec_[t]
         ELSE vec[last.i].vec_[t] = OldThis.vec_[OldX.vec_[t] + 1]

\* the operations that take one operand, and those that take two
OneOperandOps ==
  {"AddScale", "ScaleAdd", "ScaleAddScale", "PointWiseMult", "Dot", "DotNonConj"}

TwoOperandOps == {"ScaleAdd2", "PointWiseMult2"}

\* an operand of the last call has another size than the object
SizesDiffer ==
  \/ last.op \in OneOperandOps \cup TwoOperandOps /\ OldX.size_ # OldThis.size_
  \/ last.op \in TwoOperandOps /\ OldY.size_ # OldThis.size_

\* C5: every arithmetic operation taking an operand is fatal whenever an
\* operand's size differs from this vector's size, size 0 on either side
\* included, and modifies no vector then.
C5_SizeMismatch ==
  SizesDiffer => (last.st = "fatal" /\ vec = last.old)

\* the last call was made on an empty vector, its operands empty too
AllEmpty ==
  /\ OldThis.size_ = 0
  /\ last.op \in OneOperandOps \cup TwoOperandOps => OldX.size_ = 0
  /\ last.op \in TwoOperandOps => OldY.size_ = 0

\* the call did nothing: it returned, invoked no primitive, changed no
\* vector, and a reduction returned 0
WasNoOp ==
  /\ last.st = "ok"
  /\ last.prims = 0
  /\ vec = last.old
  /\ last.op \in {"Dot", "DotNonConj", "Reduce", "Asum"} => last.ret = <<0>>
  /\ last.op = "Norm" => last.ret = <<Root(0)>>

\* the operations C6 names
EmptyOps ==
  OneOperandOps \cup TwoOperandOps \cup {"Scale", "Norm", "Reduce", "Asum"}

\* the operands of the last call are device vectors, as the object is
DeviceOperands ==
  /\ last.op \in OneOperandOps \cup TwoOperandOps => OldX.backend = "hip"
  /\ last.op \in TwoOperandOps => OldY.backend = "hip"

\* C6 as stated: the operations are no-ops on an empty vector with empty
\* operands (device vectors like the object) for every element type.
C6_AsStated ==
  (last.op \in EmptyOps /\ AllEmpty /\ DeviceOperands) => WasNoOp

\* the operations specialized for int
IntOps == {"Scale", "AddScale", "Dot", "DotNonConj", "Norm", "Reduce", "Asum"}

\* C6, amended: on an empty vector with empty operands the operations are
\* no-ops for the element types float, double and complex, provided the
\* operand of Dot and DotNonConj is a device vector; for int only ScaleAdd,
\* ScaleAddScale, ScaleAdd2 and PointWiseMult are, and Scale, AddScale, Dot,
\* DotNonConj, Norm, Reduce and Asum are fatal and change nothing.
C6_EmptyNoOp ==
  (last.op \in EmptyOps /\ AllEmpty) =>
    IF vtype = "int" /\ last.op \in IntOps
    THEN last.st = "fatal" /\ vec = last.old
    ELSE (last.op \in {"Dot", "DotNonConj"} => OldX.backend = "hip") => WasNoOp

\* an inner product of two empty device vectors of a floating-point type
\* was taken
C6_Witness ==
  /\ last.op = "Dot"
  /\ vtype = "float"
  /\ last.i # last.j
  /\ AllEmpty
  /\ last.ret = <<0>>

ScaleAddScaleCase ==
  /\ last.op = "ScaleAddScale"
  /\ last.i # last.j
  /\ OldX.backend = "hip"
  /\ OldThis.size_ = OldX.size_

\* z.ScaleAddScale(a, x, b) has done what z.Scale(a) followed by
\* z.AddScale(x, b) does to a copy of z: both complete and give
\* a*z + b*x element-wise, x unchanged
SameAsScaleThenAddScale ==
  LET a == last.arg[1]
      b == last.arg[2]
      s == Scale(OldThis, a)
      t == AddScale(s.v, OldX, b)
  IN  /\ last.st = "ok" /\ s.st = "ok" /\ t.st = "ok"
      /\ vec[last.i] = t.v
      /\ vec[last.i].vec_ =
           [k \in 1 .. OldThis.size_ |-> a * OldThis.vec_[k] + b * OldX.vec_[k]]
      /\ vec[last.j] = OldX

\* C15 as stated: for every element type, ScaleAddScale(a, x, b) on z gives
\* what Scale(a) followed by AddScale(x, b) gives on a copy of z.
C15_AsStated == ScaleAddScaleCase => SameAsScaleThenAddScale

\* C15: for vectors x and z of equal size with elements of type double,
\* float or complex, and all scalars a, b, ScaleAddScale(a, x, b) on z gives
\* the same vector as Scale(a) followed by AddScale(x, b) on a copy of z,
\* namely a*z + b*x element-wise, with x unchanged; for elements of type int
\* ScaleAddScale computes a*z + b*x while Scale ends in a fatal error.
C15_ScaleAddScale ==
  ScaleAddScaleCase =>
    IF vtype # "int"
    THEN SameAsScaleThenAddScale
    ELSE /\ last.st = "ok"
         /\ vec[last.i].vec_ =
              [k \in 1 .. OldThis.size_ |->
                 last.arg[1] * OldThis.vec_[k] + last.arg[2] * OldX.vec_[k]]
         /\ Scale(OldThis, last.arg[1]).st = "fatal"

\* ScaleAddScale with two different scalars changed a vector of doubles
C15_Witness ==
  /\ ScaleAddScaleCase
  /\ vtype = "double"
  /\ OldThis.size_ = MaxN
  /\ last.arg[1] # last.arg[2]
  /\ vec[last.i].vec_ # OldThis.vec_

\* the operations of SpecArith that take an operand x, and those that take
\* a second operand y as well
OperandOps ==
  OneOperandOps \cup TwoOperandOps
    \cup {"Permute", "PermuteBackward", "CopyFromPermute", "CopyFromPermuteBackward"}

SecondOperandOps ==
  TwoOperandOps \cup {"CopyFromPermute", "CopyFromPermuteBackward"}

\* the last call was handed a host vector as an operand
HostOperand ==
  \/ last.op \in OperandOps /\ OldX.backend = "host"
  \/ last.op \in SecondOperandOps /\ OldY.backend = "host"

\* C17: an operation of a device vector that takes another vector as
\* operand (AddScale, ScaleAdd, ScaleAddScale, ScaleAdd2, PointWiseMult, Dot,
\* DotNonConj, Permute, PermuteBackward, CopyFromPermute,
\* CopyFromPermuteBackward) ends in a fatal error and modifies no vector
\* when an operand is a host vector, whatever the size of this vector.
C17_HostOperandFatal ==
  HostOperand => (last.st = "fatal" /\ vec = last.old)

----------------------------------------------------------------------------
(* The copies between the two real precisions.  A double holds every      *)
(* integer of the model; a float keeps FloatDigits leading binary digits. *)

FloatDigits == 2

RECURSIVE Pow2(_)
Pow2(n) == IF n = 0 THEN 1 ELSE 2 * Pow2(n - 1)

\* the distance between neighbouring floats at magnitude m
RECURSIVE Ulp(_)
Ulp(m) == IF m < Pow2(FloatDigits) THEN 1 ELSE 2 * Ulp(m \div 2)

\* the conversion double -> float: to the nearest float, a tie to the one
\* with the even last digit
ToFloat(d) ==
  LET m == rocalution_abs(d)
      u == Ulp(m)
      q == m \div u
      r == m % u
      up == 2 * r > u \/ (2 * r = u /\ q % 2 = 1)
      f == IF up THEN (q + 1) * u ELSE q * u
  IN  IF d < 0 THEN -f ELSE f

\* the conversion float -> double: every float is a double
ToDouble(f) == f

IsFloat(d) == ToFloat(d) = d

\* dst[i] = (double) src[i]
kernel_copy_from_float(src, dst) == [k \in 1 .. Len(dst) |-> ToDouble(src[k])]

\* dst[i] = (float) src[i]
kernel_copy_from_double(src, dst) == [k \in 1 .. Len(dst) |-> ToFloat(src[k])]

\* HIPAcceleratorVector<double>::CopyFromFloat(src), and the generic version
\* of every other element type
CopyFromFloat(this, src) ==
  IF vtype # "double" THEN Abort(this)
  ELSE IF src.backend # "hip" THEN Abort(this)
  ELSE LET a == IF this.size_ = 0 THEN Allocate(this, src.size_) ELSE this
       IN  IF ~(src.size_ = a.size_) THEN Abort(a)
           ELSE IF a.size_ > 0
           THEN Res("ok", [a EXCEPT !.vec_ = kernel_copy_from_float(src.vec_, @)],
                    <<>>, 1)
           ELSE NoOp(a)

\* CopyFromDouble storing the doubles as they are
CopyFromDoubleRaw(this, src) ==
  IF vtype # "float" THEN Abort(this)
  ELSE IF src.backend # "hip" THEN Abort(this)
  ELSE LET a == IF this.size_ = 0 THEN Allocate(this, src.size_) ELSE this
       IN  IF ~(src.size_ = a.size_) THEN Abort(a)
           ELSE IF a.size_ > 0
           THEN Res("ok", [a EXCEPT !.vec_ = src.vec_], <<>>, 1)
           ELSE NoOp(a)

\* HIPAcceleratorVector<float>::CopyFromDouble(src), and the generic version
\* of every other element type
CopyFromDouble(this, src) ==
  IF vtype # "float" THEN Abort(this)
  ELSE IF src.backend # "hip" THEN Abort(this)
  ELSE LET a == IF this.size_ = 0 THEN Allocate(this, src.size_) ELSE this
       IN  IF ~(src.size_ = a.size_) THEN Abort(a)
           ELSE IF a.size_ > 0
           THEN Res("ok", [a EXCEPT !.vec_ = kernel_copy_from_double(src.vec_, @)],
                    <<>>, 1)
           ELSE NoOp(a)

\* the operand of CopyFromFloat is a vector of float
DoCopyFromFloat(i, j) ==
  /\ Hip(i)
  /\ \A k \in 1 .. Len(Drained[j].vec_) : IsFloat(Drained[j].vec_[k])
  /\ ArithStep("CopyFromFloat", i, j, 0, <<>>, CopyFromFloat(Drained[i], Drained[j]))

\* the operand of CopyFromDouble is a vector of double
DoCopyFromDouble(i, j) ==
  /\ Hip(i)
  /\ ArithStep("CopyFromDouble", i, j, 0, <<>>, CopyFromDouble(Drained[i], Drained[j]))

\* the doubles a source holds: two of them are floats, one is not
Doubles == {-5, 1, 6}

SourceStates ==
  UNION {{Built(b, d, <<>>) : d \in [1 .. n -> Doubles], b \in {"hip", "host"}} :
         n \in 0 .. MaxN}

\* what a destination holds, whatever its element type
TargetStates ==
  UNION {{Built("hip", d, ix) : d \in [1 .. n -> {1, 2}],
                                ix \in {x \in {<<>>, <<0>>} : Len(x) <= n}} :
         n \in 0 .. MaxN}

InitConvert ==
  /\ vtype \in ValueTypes
  /\ vec \in {[i \in VecIds |-> IF i = 1 THEN t ELSE o] :
               t \in TargetStates, o \in SourceStates}
  /\ pending = <<>>
  /\ last = NoCall
  /\ size_ = 0
  /\ omp = Idle
  /\ mg = NoMultiGrid

NextConvert ==
  /\ last.op = "none"
  /\ \/ DoCopyFromFloat(1, 2)
     \/ DoCopyFromDouble(1, 2)

SpecConvert == InitConvert /\ [][NextConvert]_vars

\* the floats within the range of the doubles held
FloatsInRange ==
  {f \in -Pow2(FloatDigits + 2) .. Pow2(FloatDigits + 2) : IsFloat(f)}

\* f is a float nearest to d
NearestFloat(f, d) ==
  /\ f \in FloatsInRange
  /\ \A g \in FloatsInRange : rocalution_abs(f - d) <= rocalution_abs(g - d)

\* a conversion between operands the claim admits: the destination of the
\* one real precision, the source on the device and of the other, the
\* destination empty or of the source's size
ConvertCase ==
  /\ \/ last.op = "CopyFromFloat" /\ vtype = "double"
     \/ last.op = "CopyFromDouble" /\ vtype = "float"
  /\ OldX.backend = "hip"
  /\ OldThis.size_ \in {0, OldX.size_}

\* C16: CopyFromFloat on a double destination and CopyFromDouble on a float
\* destination, with a device source of the other precision and a
\* destination that is empty or of the source's size, complete; the
\* destination then has the source's size and each element is the source's
\* element converted (a float becomes the same double, a double the nearest
\* float), the source unchanged.  On a complex destination both are fatal
\* and modify nothing.
C16_Convert ==
  /\ ConvertCase =>
       /\ last.st = "ok"
       /\ vec[last.i].size_ = OldX.size_
       /\ Len(vec[last.i].vec_) = OldX.size_
       /\ \A k \in 1 .. OldX.size_ :
            IF last.op = "CopyFromFloat"
            THEN vec[last.i].vec_[k] = OldX.vec_[k]
            ELSE NearestFloat(vec[last.i].vec_[k], OldX.vec_[k])
       /\ vec[last.j] = OldX
  /\ (last.op \in {"CopyFromFloat", "CopyFromDouble"} /\ vtype = "complex")
       => (last.st = "fatal" /\ vec = last.old)

\* an empty float destination took a double that is no float
C16_Witness ==
  /\ ConvertCase
  /\ last.op = "CopyFromDouble"
  /\ OldThis.size_ = 0
  /\ OldX.size_ = MaxN
  /\ \E k \in 1 .. MaxN : vec[last.i].vec_[k] # OldX.vec_[k]

----------------------------------------------------------------------------
(* The MultiGrid solver and its hierarchy setters *)

\* the operators a caller owns, named by their addresses
Operators == {1, 2}

\* a solver after its construction: no hierarchy, levels_ as the base
\* class's constructor leaves it
NewMultiGrid(levels) == [NoMultiGrid EXCEPT !.levels_ = levels]

\* the outcome of a call on the solver m: the fields become f
MgOk(m, op, arg, f) == [f EXCEPT !.op = op, !.arg = arg, !.st = "ok"]

MgFatal(m, op, arg) ==
  [m EXCEPT !.op = op, !.arg = arg, !.st = "fatal", !.lost = 0]

\* the member f of m is assigned the array a, by  this->f = new ...  or by
\* this->f = op: an array that new gave to the member before is lost
Assign(m, f, a, new) ==
  [m EXCEPT ![f] = a,
            !.lost = IF new /\ ~m[f].null THEN 1 ELSE 0]

\* new Operator<ValueType>*[levels_] with its first levels_-1 entries taken
\* from op; the last entry is never written (0)
LevelArray(levels, op) ==
  ArrayOf([i \in 1 .. levels |-> IF i <= levels - 1 THEN op.at[i] ELSE 0])

\* SetOperatorHierarchy with the third assert of the two other setters
SetOperatorHierarchyChecked(m, op) ==
  IF ~(m.build_ = FALSE) THEN MgFatal(m, "SetOperatorHierarchy", op)
  ELSE IF op.null THEN MgFatal(m, "SetOperatorHierarchy", op)
  ELSE IF ~(m.levels_ > 0) THEN MgFatal(m, "SetOperatorHierarchy", op)
  ELSE MgOk(m, "SetOperatorHierarchy", op, Assign(m, "op_level_", op, FALSE))

\* MultiGrid::SetOperatorHierarchy(op)
SetOperatorHierarchy(m, op) ==
  IF ~(m.build_ = FALSE) THEN MgFatal(m, "SetOperatorHierarchy", op)
  ELSE IF op.null THEN MgFatal(m, "SetOperatorHierarchy", op)
  ELSE MgOk(m, "SetOperatorHierarchy", op, Assign(m, "op_level_", op, FALSE))

\* MultiGrid::SetRestrictOperator(op)
SetRestrictOperator(m, op) ==
  IF ~(m.build_ = FALSE) THEN MgFatal(m, "SetRestrictOperator", op)
  ELSE IF op.null THEN MgFatal(m, "SetRestrictOperator", op)
  ELSE IF ~(m.levels_ > 0) THEN MgFatal(m, "SetRestrictOperator", op)
  ELSE MgOk(m, "SetRestrictOperator", op,
            Assign(m, "restrict_op_level_", LevelArray(m.levels_, op), TRUE))

\* MultiGrid::SetProlongOperator(op)
SetProlongOperator(m, op) ==
  IF ~(m.build_ = FALSE) THEN MgFatal(m, "SetProlongOperator", op)
  ELSE IF op.null THEN MgFatal(m, "SetProlongOperator", op)
  ELSE IF ~(m.levels_ > 0) THEN MgFatal(m, "SetProlongOperator", op)
  ELSE MgOk(m, "SetProlongOperator", op,
            Assign(m, "prolong_op_level_", LevelArray(m.levels_, op), TRUE))

\* BaseMultiGrid::InitLevels(levels)
InitLevels(m, levels) ==
  IF ~(m.build_ = FALSE) THEN MgFatal(m, "InitLevels", NullArray)
  ELSE IF ~(levels > 0) THEN MgFatal(m, "InitLevels", NullArray)
  ELSE MgOk(m, "InitLevels", NullArray, [m EXCEPT !.levels_ = levels, !.lost = 0])

\* BaseMultiGrid::Build(): fatal without levels or without a complete
\* hierarchy, else the solver is Built
Build(m) ==
  IF \/ ~(m.levels_ > 0)
     \/ m.op_level_.null
     \/ m.restrict_op_level_.null
     \/ m.prolong_op_level_.null
  THEN MgFatal(m, "Build", NullArray)
  ELSE MgOk(m, "Build", NullArray, [m EXCEPT !.build_ = TRUE, !.lost = 0])

\* MultiGrid::~MultiGrid(): delete[] of the two arrays of transfer
\* operators; delete[] of a null pointer does nothing
MultiGridDestructor(m) ==
  [m EXCEPT !.op = "~MultiGrid", !.arg = NullArray, !.st = "destroyed",
            !.lost = 0,
            !.deleted = {f \in {"restrict_op_level_", "prolong_op_level_"} :
                           ~m[f].null}]

\* the arrays a caller passes: null, or n operators
CallerArrays(n) == {NullArray} \cup {ArrayOf(a) : a \in [1 .. n -> Operators]}

\* one call on the solver, which becomes m
MgStep(m) ==
  /\ mg.st = "ok"
  /\ mg' = m
  /\ UNCHANGED <<vec, pending, last, vtype, size_, omp>>

DoInitLevels(levels) == MgStep(InitLevels(mg, levels))

DoBuild == ~mg.build_ /\ MgStep(Build(mg))

\* the solver is destroyed
DoDestructor == MgStep(MultiGridDestructor(mg))

\* the caller's array holds an operator for every level there is
DoSetOperatorHierarchy(op) ==
  /\ Len(op.at) = (IF mg.levels_ > 0 THEN mg.levels_ ELSE 1) \/ op.null
  /\ MgStep(SetOperatorHierarchy(mg, op))

\* the caller's array holds a transfer operator for every level but the last
DoSetRestrictOperator(op) ==
  /\ Len(op.at) = (IF mg.levels_ > 0 THEN mg.levels_ - 1 ELSE 0) \/ op.null
  /\ MgStep(SetRestrictOperator(mg, op))

DoSetProlongOperator(op) ==
  /\ Len(op.at) = (IF mg.levels_ > 0 THEN mg.levels_ - 1 ELSE 0) \/ op.null
  /\ MgStep(SetProlongOperator(mg, op))

InitMultiGrid ==
  /\ mg \in {NewMultiGrid(l) : l \in -1 .. 0}
  /\ vec = [i \in VecIds |-> NewVector("hip")]
  /\ pending = <<>>
  /\ last = NoCall
  /\ vtype = "double"
  /\ size_ = 0
  /\ omp = Idle

NextMultiGrid ==
  \/ \E levels \in 0 .. MaxLevels : DoInitLevels(levels)
  \/ DoBuild
  \/ \E n \in 0 .. MaxLevels : \E op \in CallerArrays(n) : DoSetOperatorHierarchy(op)
  \/ \E n \in 0 .. MaxLevels : \E op \in CallerArrays(n) : DoSetRestrictOperator(op)
  \/ \E n \in 0 .. MaxLevels : \E op \in CallerArrays(n) : DoSetProlongOperator(op)
  \/ DoDestructor

SpecMultiGrid == InitMultiGrid /\ [][NextMultiGrid]_vars

Setters == {"SetOperatorHierarchy", "SetRestrictOperator", "SetProlongOperator"}

\* the solver holds the operators of the array the last setter was given
Recorded ==
  /\ mg.op = "SetOperatorHierarchy" =>
       /\ mg.op_level_ = mg.arg
       /\ Len(mg.op_level_.at) = mg.levels_
  /\ mg.op = "SetRestrictOperator" =>
       /\ ~mg.restrict_op_level_.null
       /\ \A i \in 1 .. mg.levels_ - 1 : mg.restrict_op_level_.at[i] = mg.arg.at[i]
  /\ mg.op = "SetProlongOperator" =>
       /\ ~mg.prolong_op_level_.null
       /\ \A i \in 1 .. mg.levels_ - 1 : mg.prolong_op_level_.at[i] = mg.arg.at[i]

\* C18: each of SetOperatorHierarchy, SetRestrictOperator and
\* SetProlongOperator ends in a fatal error when the solver is built, when
\* levels_ is not > 0 or when the array is null; otherwise it records the
\* caller's operators and leaves the solver Unbuilt.
C18_Setters ==
  mg.op \in Setters =>
    IF mg.build_ \/ ~(mg.levels_ > 0) \/ mg.arg.null
    THEN mg.st = "fatal"
    ELSE mg.st = "ok" /\ Recorded /\ ~mg.build_

----------------------------------------------------------------------------
(* The two inner products on real and on complex vectors *)

\* the elements of a vector of type t: complex ones have an imaginary part
DotValues(t) ==
  IF t = "complex" THEN {Cx(1, 1), Cx(-2, 0), Cx(0, -1)} ELSE {-2, 1}

DotStates(t) ==
  UNION {{Built("hip", d, <<>>) : d \in [1 .. n -> DotValues(t)]} : n \in 0 .. MaxN}

InitDot ==
  /\ vtype \in ValueTypes
  /\ vec \in [VecIds -> DotStates(vtype)]
  /\ pending = <<>>
  /\ last = NoCall
  /\ size_ = 0
  /\ omp = Idle
  /\ mg = NoMultiGrid

NextDot ==
  /\ last.op = "none"
  /\ \/ \E j \in VecIds : DoDot(1, j)
     \/ \E j \in VecIds : DoDotNonConj(1, j)

SpecDot == InitDot /\ [][NextDot]_vars

\* the sum over i of this[i] * x[i], neither operand conjugated
PlainSum ==
  SumTo([k \in 1 .. OldThis.size_ |-> Mul(OldThis.vec_[k], OldX.vec_[k])],
        OldThis.size_)

\* C19: on vectors of equal size DotNonConj(x) returns the sum over i of
\* this[i]*x[i] with neither operand conjugated when the elements are
\* complex, and what Dot(x) returns when they are real.
C19_DotNonConj ==
  (last.op = "DotNonConj" /\ OldThis.size_ = OldX.size_) =>
    /\ vtype = "complex" => (last.st = "ok" /\ last.ret = <<PlainSum>>)
    /\ vtype \in {"double", "float"} =>
         (last.st = "ok" /\ last.ret = Dot(OldThis, OldX).ret)

----------------------------------------------------------------------------
(* Reading and writing the elements an index array names *)

\* every entry of the object's index array is a position of the vector
InRange(v) ==
  \A j \in 1 .. Len(v.index_array_) : v.index_array_[j] < v.size_

\* out[j] = in[index[j]]; a read past the end of in gives junk[j]
kernel_get_index_values(index, in, junk) ==
  [j \in 1 .. Len(index) |->
     IF index[j] < Len(in) THEN in[index[j] + 1] ELSE junk[j]]

\* out[index[j]] = in[j]; win[p] is the thread whose store to position p - 1
\* comes last, 0 when no thread stores there
kernel_set_index_values(index, in, out, win) ==
  [p \in 1 .. Len(out) |-> IF win[p] = 0 THEN out[p] ELSE in[win[p]]]

\* the ways the stores of the threads of kernel_set_index_values can end
Winners(index, n) ==
  {w \in [1 .. n -> 0 .. Len(index)] :
     \A p \in 1 .. n :
       IF \E j \in 1 .. Len(index) : index[j] = p - 1
       THEN w[p] # 0 /\ index[w[p]] = p - 1
       ELSE w[p] = 0}

\* HIPAcceleratorVector::GetIndexValues(values); null: values is NULL;
\* fault: an access outside the vector's buffer ends the process
GetIndexValues(this, null, junk, fault) ==
  IF null THEN Abort(this)
  ELSE IF ~InRange(this) /\ fault THEN Abort(this)
  ELSE Res("ok", this,
           kernel_get_index_values(this.index_array_, this.vec_, junk), 2)

\* SetIndexValues storing values[j] at position j, whatever the index array
SetIndexValuesFront(this, null, values, win, fault) ==
  IF null THEN Abort(this)
  ELSE Res("ok", [this EXCEPT !.vec_ =
                    [p \in 1 .. Len(@) |-> IF p <= Len(values) THEN values[p] ELSE @[p]]],
           <<>>, 2)

\* HIPAcceleratorVector::SetIndexValues(values)
SetIndexValues(this, null, values, win, fault) ==
  IF null THEN Abort(this)
  ELSE IF ~InRange(this) /\ fault THEN Abort(this)
  ELSE Res("ok", [this EXCEPT !.vec_ =
                    kernel_set_index_values(this.index_array_, values, @, win)],
           <<>>, 2)

\* the values a client stores through the index array
NewValues == {0, MaxN + 2}

\* the call record of GetIndexValues keeps, in prev, the values of the call
\* before it when that was a SetIndexValues; k is 1 when values is NULL
DoGetIndexValues(i) ==
  /\ Hip(i)
  /\ \E null \in BOOLEAN :
     \E fault \in (IF InRange(Drained[i]) THEN {FALSE} ELSE BOOLEAN) :
     \E junk \in [1 .. Drained[i].index_size_ ->
                    IF InRange(Drained[i]) THEN {0} ELSE NewValues] :
       LET r == GetIndexValues(Drained[i], null, junk, fault)
       IN  Step([Call("GetIndexValues", i, 0, <<>>, r.st, r.ret, r.prims)
                  EXCEPT !.k = IF null THEN 1 ELSE 0,
                         !.prev = IF last.op = "SetIndexValues" /\ last.i = i
                                  THEN last.arg ELSE <<>>],
                [Drained EXCEPT ![i] = r.v], <<>>)

DoSetIndexValues(i, values) ==
  /\ Hip(i)
  /\ Len(values) = Drained[i].index_size_
  /\ \E null \in BOOLEAN :
     \E fault \in (IF InRange(Drained[i]) THEN {FALSE} ELSE BOOLEAN) :
     \E win \in Winners(Drained[i].index_array_, Drained[i].size_) :
       LET r == SetIndexValues(Drained[i], null, values, win, fault)
       IN  Step([Call("SetIndexValues", i, 0, values, r.st, r.ret, r.prims)
                  EXCEPT !.k = IF null THEN 1 ELSE 0],
                [Drained EXCEPT ![i] = r.v], <<>>)

InitIndex ==
  /\ vec \in {[i \in VecIds |-> IF i = 1 THEN t ELSE NewVector("hip")] :
               t \in UNION {{Built("hip", d, <<>>) : d \in Buffers(n)} : n \in 0 .. MaxN}}
  /\ pending = <<>>
  /\ last = NoCall
  /\ vtype \in ValueTypes
  /\ size_ = 0
  /\ omp = Idle
  /\ mg = NoMultiGrid

NextIndex ==
  \/ /\ last.op = "none"
     /\ \E index \in SeqsUpTo(0 .. MaxN - 1, MaxN) : DoSetIndexArray(1, index)
  \/ /\ last.op = "SetIndexArray"
     /\ \E values \in SeqsUpTo(NewValues, MaxN) : DoSetIndexValues(1, values)
  \/ /\ last.op \in {"SetIndexArray", "SetIndexValues"}
     /\ DoGetIndexValues(1)

SpecIndex == InitIndex /\ [][NextIndex]_vars

\* the object holds an index array of 0 < k <= size distinct positions of
\* the vector
IndexOk(v) ==
  /\ v.index_size_ > 0
  /\ v.index_size_ <= v.size_
  /\ Len(v.index_array_) = v.index_size_
  /\ InRange(v)
  /\ \A a, b \in 1 .. v.index_size_ :
       v.index_array_[a] = v.index_array_[b] => a = b

\* C20: with an index array of 0 < k <= size distinct in-range positions,
\* GetIndexValues(values) returns values[j] = v[idx[j]] for all j < k and
\* changes no vector; SetIndexValues(values) sets v[idx[j]] = values[j] for
\* all j < k and changes nothing else; GetIndexValues after
\* SetIndexValues(w) returns w.  SetIndexArray with k <= 0 or k > size ends
\* in a fatal error.
C20_IndexValues ==
  /\ (last.op = "GetIndexValues" /\ last.k = 0 /\ IndexOk(OldThis)) =>
       /\ last.st = "ok"
       /\ last.ret = [j \in 1 .. OldThis.index_size_ |->
                        OldThis.vec_[OldThis.index_array_[j] + 1]]
       /\ vec = last.old
       /\ last.prev # <<>> => last.ret = last.prev
  /\ (last.op = "SetIndexValues" /\ last.k = 0 /\ IndexOk(OldThis)) =>
       /\ last.st = "ok"
       /\ \A j \in 1 .. OldThis.index_size_ :
            vec[last.i].vec_[OldThis.index_array_[j] + 1] = last.arg[j]
       /\ \A p \in 1 .. OldThis.size_ :
            (\A j \in 1 .. OldThis.index_size_ : OldThis.index_array_[j] # p - 1)
              => vec[last.i].vec_[p] = OldThis.vec_[p]
       /\ vec = [last.old EXCEPT ![last.i].vec_ = vec[last.i].vec_]
  /\ (last.op = "SetIndexArray"
      /\ (Len(last.arg) <= 0 \/ Len(last.arg) > OldThis.size_)) =>
       (last.st = "fatal" /\ vec = last.old)

\* values stored through an index array that is not in increasing order
\* were read back
C20_Witness ==
  /\ last.op = "GetIndexValues"
  /\ last.st = "ok"
  /\ IndexOk(OldThis)
  /\ OldThis.index_size_ > 1
  /\ OldThis.index_array_[1] > OldThis.index_array_[2]
  /\ last.prev # <<>>
  /\ last.prev[1] # last.prev[2]
  /\ last.ret = last.prev

----------------------------------------------------------------------------
(* The life cycle of one device vector: Allocate, SetDataPtr,              *)
(* SetIndexArray, LeaveDataPtr and Clear on object 1, from the state its   *)
(* constructor leaves.                                                     *)

InitLife ==
  /\ vec = [i \in VecIds |-> NewVector("hip")]
  /\ pending = <<>>
  /\ last = NoCall
  /\ vtype = "double"
  /\ size_ = 0
  /\ omp = Idle
  /\ mg = NoMultiGrid

NextLife ==
  \/ \E n \in -1 .. MaxLen : DoAllocate(1, n)
  \/ DoClear(1)
  \/ \E n \in 0 .. MaxLen : \E data \in Buffers(n) : DoSetDataPtr(1, data)
  \/ DoLeaveDataPtr(1)
  \/ \E k \in 0 .. MaxIdx : \E index \in IndexArrays(k) : DoSetIndexArray(1, index)

SpecLife == InitLife /\ [][NextLife]_vars

\* C25: after any sequence of Allocate and SetIndexArray calls on a device
\* vector, Clear leaves it owning no allocated buffer: data buffer, index
\* array, index buffer and both scratch buffers are released, whether or
\* not an index array was attached.  The calls before the Clear are
\* Allocate and SetIndexArray only when the vector is in a state these two
\* build: the scratch buffers are held iff the data buffer is, and the index
\* array is no longer than the vector.
C25_ClearReleasesAll ==
  (/\ last.op = "Clear"
   /\ last.st = "ok"
   /\ last.old[last.i].host_buffer_ = (last.old[last.i].size_ > 0)
   /\ last.old[last.i].device_buffer_ = (last.old[last.i].size_ > 0)
   /\ last.old[last.i].index_size_ <= last.old[last.i].size_)
  => Owned(vec[last.i]) = {}

\* C26: in every sequence of Allocate, SetDataPtr, SetIndexArray,
\* LeaveDataPtr and Clear calls on a device vector no buffer is released
\* twice and no null pointer is released: every release a call asks for is
\* of a pointer that holds a buffer.
C26_NoNullRelease ==
  last.op \in {"Allocate", "SetDataPtr", "SetIndexArray", "LeaveDataPtr", "Clear"}
  => vec[last.i].nullfree = 0

\* C27: SetDataPtr(&p, n), p non-null and n > 0, on an empty vector (and on
\* any other) takes the buffer as the vector's data with size n; a
\* LeaveDataPtr(&q) right after it hands back that buffer with its
\* contents, releases no data buffer and leaves the vector with size 0 and
\* a NULL data pointer; whatever was pending when either call was made has
\* been carried out before the pointer changes hands.
C27_SetLeave ==
  /\ (/\ last.op = "SetDataPtr"
      /\ Len(last.arg) > 0)
     => /\ last.st = "ok"
        /\ vec[last.i].vec_ = last.arg
        /\ vec[last.i].size_ = Len(last.arg)
        /\ "vec_" \notin vec[last.i].freed
        /\ pending = <<>>
  /\ (/\ last.op = "LeaveDataPtr"
      /\ last.prev # <<>>
      /\ Len(last.prev[1]) > 0)
     => /\ last.st = "ok"
        /\ last.ret = last.prev[1]
        /\ vec[last.i].vec_ = <<>>
        /\ vec[last.i].size_ = 0
        /\ "vec_" \notin vec[last.i].freed
        /\ pending = <<>>

\* a buffer of MaxLen elements, not all zero, given to an empty vector has
\* been handed back
C27_Witness ==
  /\ last.op = "LeaveDataPtr"
  /\ last.st = "ok"
  /\ last.prev # <<>>
  /\ last.prev[2] = 0
  /\ Len(last.prev[1]) = MaxLen
  /\ last.ret = last.prev[1]
  /\ \E k \in 1 .. MaxLen : last.ret[k] # 0

----------------------------------------------------------------------------
(* Permute and PermuteBackward: the temporary copy and the index array *)

\* C21: Permute and PermuteBackward release every buffer they allocate for
\* their temporary full copy before returning, on every exit path, the
\* short-circuit of the empty vector included: no buffer is left allocated
\* with nothing pointing to it, none is released that was not held, and the
\* vector holds the buffers it held.
C21_PermuteReleases ==
  (/\ last.op \in {"Permute", "PermuteBackward"}
   /\ last.st = "ok")
  => /\ vec[last.i].lost = 0
     /\ vec[last.i].nullfree = 0
     /\ Owned(vec[last.i]) = Owned(OldThis)

\* C28: Permute(p) and PermuteBackward(p) complete without a contract
\* violation on every non-empty device vector whose size equals p's size,
\* p on the device, a vector with an index array attached included, and
\* leave that index array and its size unchanged.
C28_PermuteWithIndex ==
  (/\ last.op \in {"Permute", "PermuteBackward"}
   /\ OldThis.size_ > 0
   /\ OldThis.size_ = OldX.size_
   /\ OldX.backend = "hip")
  => /\ last.st = "ok"
     /\ vec[last.i].index_size_ = OldThis.index_size_
     /\ vec[last.i].index_array_ = OldThis.index_array_

----------------------------------------------------------------------------
(* The copy of a window within one vector *)

\* C29: a partial CopyFrom(src, srcOffset, dstOffset, length) with src the
\* destination vector itself and overlapping source and destination
\* windows leaves, under every scheduling of the element-wise copy, the
\* destination window equal to the source window as it was before the call.
C29_SelfOverlap ==
  (/\ last.op = "CopyFromPartial"
   /\ last.st = "ok"
   /\ last.i = last.j
   /\ ~WindowsApart)
  => WindowCopied

----------------------------------------------------------------------------
(* The index array over the life cycle of the vector: the calls of         *)
(* SpecLife, and GetIndexValues and SetIndexValues, on object 1.           *)

NextIndexLife ==
  \/ \E n \in -1 .. MaxLen : DoAllocate(1, n)
  \/ DoClear(1)
  \/ \E n \in 0 .. MaxLen : \E data \in Buffers(n) : DoSetDataPtr(1, data)
  \/ DoLeaveDataPtr(1)
  \/ \E k \in 0 .. MaxIdx : \E index \in IndexArrays(k) : DoSetIndexArray(1, index)
  \/ \E values \in SeqsUpTo(NewValues, MaxIdx) : DoSetIndexValues(1, values)
  \/ DoGetIndexValues(1)

SpecIndexLife == InitLife /\ [][NextIndexLife]_vars

\* C30: GetIndexValues and SetIndexValues read and write the vector only at
\* positions in [0, size): every entry of the stored index array is a
\* position of the vector, right after SetIndexArray and after every later
\* call that changes the vector's size.
C30_IndexInRange ==
  /\ (last.op \in {"GetIndexValues", "SetIndexValues"} /\ last.k = 0)
       => InRange(OldThis)
  /\ (last.op \in {"SetIndexArray", "Allocate", "SetDataPtr", "LeaveDataPtr"}
      /\ last.st = "ok")
       => InRange(vec[last.i])

----------------------------------------------------------------------------
(* HostStencilLaplace2D: the index a store goes through, and the positions *)
(* read and written                                                        *)

\* thread t has assigned idx for its next statement and is about to run
\* the statement's store
AboutToStore(t) ==
  /\ omp.phase \in 1 .. 4
  /\ omp.todo[t] # <<>>
  /\ omp.set[t]

\* the statements of a call in the order one thread alone runs them
RECURSIVE SerialLoop(_, _, _)
SerialLoop(ph, n, k) ==
  IF k >= n - 1 THEN <<>> ELSE Body(ph, n, k) \o SerialLoop(ph, n, k + 1)

SerialStmts(n) ==
  SerialLoop(1, n, 1) \o SerialLoop(2, n, 1) \o SerialLoop(3, n, 1) \o Corners(n)

\* out after the statements, each run at its own index
RECURSIVE RunSerial(_, _, _, _)
RunSerial(stmts, in, out, add) ==
  IF stmts = <<>> THEN out
  ELSE LET s == Head(stmts)
       IN  RunSerial(Tail(stmts), in,
                     [out EXCEPT ![s.idx + 1] =
                        (IF add THEN @ ELSE 0)
                          + Terms(s.offs, s.idx, in, [p \in 1 .. Len(s.offs) |-> 0], 1)],
                     add)

\* C23: Apply and ApplyAdd give the output of their single-threaded
\* execution under every interleaving of the threads that run the parallel
\* loops: no thread reads or writes an element through an index value that
\* another thread computed.
C23_OwnIndex ==
  /\ \A t \in Threads :
       AboutToStore(t) => omp.idx = Head(omp.todo[t]).idx
  /\ (last.op \in {"Apply", "ApplyAdd"} /\ last.st = "ok" /\ size_ >= 2)
       => vec[2].vec_ = RunSerial(SerialStmts(size_), last.old[1].vec_,
                                  last.old[2].vec_, last.op = "ApplyAdd")

\* C24: for every grid size >= 1 and vectors of length size_*size_, Apply
\* and ApplyAdd read the input and write the output only at indices in
\* [0, size_*size_), for size_ = 1 as well: whenever a statement's store is
\* about to run, the index it writes and every index it reads is one.
C24_InBounds ==
  \A t \in Threads :
    AboutToStore(t) =>
      LET s == Head(omp.todo[t])
      IN  /\ omp.idx >= 0 /\ omp.idx < size_ * size_
          /\ \A p \in 1 .. Len(s.offs) :
               omp.idx + s.offs[p] >= 0 /\ omp.idx + s.offs[p] < size_ * size_

----------------------------------------------------------------------------
(* The arrays of the MultiGrid solver *)

\* C22: for any sequence of setter calls followed by the destruction of a
\* MultiGrid solver, no caller-supplied array is freed by the solver, and
\* each array that SetRestrictOperator or SetProlongOperator allocated is
\* released exactly once: no call leaves one allocated with nothing
\* pointing to it, and the destructor releases the array of each of the two
\* members that holds one, and nothing for a member no setter was called
\* for.
C22_Arrays ==
  /\ mg.lost = 0
  /\ mg.st = "destroyed"
       => /\ "op_level_" \notin mg.deleted
          /\ \A f \in {"restrict_op_level_", "prolong_op_level_"} :
               f \in mg.deleted <=> ~mg[f].null

====
